---- MODULE Spec2Model ----
\* The restaurant recommendation engine of backend/app/ml_recommendations.py
\* (RestaurantRecommendationSystem) as a state machine: the engine instance with
\* its two TF-IDF vectorizers, and get_recommendations run step by step.
\*
\* Numbers.  Python floats are modelled as integers in fixed point: a similarity
\* or price score x is held as x * ONE, a feature weight w as w * WEIGHT_ONE, an
\* aggregate score as x * ONE * WEIGHT_ONE.
\* Strings.  A string is a sequence of pieces; a piece is a letter, a word or the
\* blank " ".  lower() and strip() work piece by piece.
\* Optional values.  None is <<>>, a present value x is <<x>>.
EXTENDS Integers, Sequences, FiniteSets, TLC

VARIABLES
    menu_tfidf_fitted,    \* self.menu_tfidf_fitted
    tags_tfidf_fitted,    \* self.tags_tfidf_fitted
    menu_vocabulary,      \* self.menu_tfidf.vocabulary_ (the empty set until fitted)
    tags_vocabulary,      \* self.tags_tfidf.vocabulary_
    pc,                   \* where the current get_recommendations call stands
    user_restaurants,     \* argument: the reference rows
    city_restaurants,     \* argument: the candidate rows
    top_k,                \* argument
    all_features,         \* user_features + city_features, the bundles mutated in place
    encoder_log,          \* which encode calls of this call raised
    city_scores,          \* city_scores[i][j] = (scores, weighted_sim) of candidate i, reference j
    similarity_matrix,    \* similarity_matrix[i][j]
    feature_details,      \* feature_details[i]: scores of the best reference of candidate i
    recommendations,      \* the list get_recommendations returns
    history,              \* the calls that returned, oldest first (inputs, encoder outcomes, output)
    now,                  \* the clock time.time() and datetime.now() read, in tenths of a second
    groq_cache,           \* groq_service.cache: cache key -> GroqResponse
    last_request_time,    \* groq_service.last_request_time
    request_lock,         \* groq_service.request_lock: 0 when free, else the coroutine holding it
    request_timestamps_primary,   \* groq_service.request_timestamps_primary
    daily_request_count_primary,  \* groq_service.daily_request_count_primary
    coroutines,           \* the get_restaurant_details calls on the event loop, by caller
    sent,                 \* the times at which the Groq API was sent a request, oldest first
    returned,             \* the get_restaurant_details calls that returned, oldest first
    lookup_cache,         \* the module-level cache of each lookup client: query -> result
    lookup_log,           \* the lookups that returned, oldest first
    explanation           \* the last response of explain_recommendations

\* the state of groq_service, of the lookup clients and the explain endpoint, and
\* of all of them
groq == <<now, groq_cache, last_request_time, request_lock, request_timestamps_primary,
          daily_request_count_primary, coroutines, sent, returned>>
lookups == <<lookup_cache, lookup_log, explanation>>
clients == <<groq, lookups>>

vars == <<menu_tfidf_fitted, tags_tfidf_fitted, menu_vocabulary, tags_vocabulary, pc,
          user_restaurants, city_restaurants, top_k, all_features, encoder_log,
          city_scores, similarity_matrix, feature_details, recommendations, history,
          clients>>

-----------------------------------------------------------------------------
\* Bounds of the model.

\* longest candidate list of a call under SpecRank
MaxCands == 3
\* longest reference and candidate lists of a call under SpecFeat
MaxFeatRefs == 2
MaxFeatCands == 1
\* calls made one after the other under SpecCalls
MaxCalls == 3

\* candidates of a direct call of calculate_feature_similarities (SpecSim)
MaxSimCands == 2

\* candidates of a call with records that fail to extract or to parse (SpecExtract)
MaxExtractCands == 2

\* candidates of a call with one reference and candidates like it (SpecMono)
MaxMonoCands == 2

\* get_restaurant_details calls of the search requests together under SpecGroq
MaxGroqCalls == 3

\* restaurants of the one search request under SpecLimit, and the requests of it
\* that the API fails
MaxLimitCalls == 56
MaxLimitFailures == 1

\* lookups of a run under SpecLookup
MaxLookups == 2

-----------------------------------------------------------------------------
\* Optional values and small helpers.

None == <<>>
Some(x) == <<x>>
IsNone(o) == Len(o) = 0
Get(o) == o[1]

Min(a, b) == IF a <= b THEN a ELSE b
Max(a, b) == IF a >= b THEN a ELSE b
Abs(a) == IF a >= 0 THEN a ELSE 0 - a

RECURSIVE SumF(_)
SumF(f) ==
    IF DOMAIN f = {} THEN 0
    ELSE LET k == CHOOSE x \in DOMAIN f : TRUE
         IN f[k] + SumF([x \in (DOMAIN f) \ {k} |-> f[x]])

RECURSIVE ISqrtFrom(_, _)
ISqrtFrom(n, r) == IF (r + 1) * (r + 1) > n THEN r ELSE ISqrtFrom(n, r + 1)
ISqrt(n) == ISqrtFrom(n, 0)

-----------------------------------------------------------------------------
\* Constants of ml_recommendations.py.

\* the float 1.0 in fixed point
ONE == 100
\* the sum of the feature weights, 1.0, in hundredths
WEIGHT_ONE == 100
SENTENCE_EMBEDDING_DIM == 384
MENU_TFIDF_MAX_FEATURES == 300
MENU_TFIDF_NGRAM_MAX == 5
TAGS_TFIDF_MAX_FEATURES == 150
TAGS_TFIDF_NGRAM_MAX == 3
\* max_df = 0.95 and 0.9, in hundredths of the number of documents
TFIDF_MAX_DF == 95
TAGS_MAX_DF == 90
TFIDF_MIN_DF == 1
PRICE_SCALE_MIN == 1
PRICE_SCALE_MAX == 5
COSINE_SIM_NORMALIZATION_OFFSET == ONE
NEUTRAL_SIMILARITY_SCORE == ONE \div 2

feature_weights ==
    [cuisine |-> 18, price |-> 15, description |-> 20, review |-> 12, menu |-> 20, tags |-> 15]

-----------------------------------------------------------------------------
\* Strings: str.lower(), str.strip(), concatenation.

LowerPiece(p) ==
    CASE p = "A" -> "a"
      [] p = "B" -> "b"
      [] p = "C" -> "c"
      [] p = "Pizza" -> "pizza"
      [] OTHER -> p

StrLower(s) == [i \in 1..Len(s) |-> LowerPiece(s[i])]

RECURSIVE StripLeft(_)
StripLeft(s) == IF s # <<>> /\ Head(s) = " " THEN StripLeft(Tail(s)) ELSE s

RECURSIVE StripRight(_)
StripRight(s) ==
    IF s # <<>> /\ s[Len(s)] = " " THEN StripRight(SubSeq(s, 1, Len(s) - 1)) ELSE s

StrStrip(s) == StripRight(StripLeft(s))

\* name.lower().strip(), the key of the name filter
NormalizedName(name) == StrStrip(StrLower(name))

-----------------------------------------------------------------------------
\* Vectors.  A vector is [dim, at]: its length and its non-zero coordinates.

Vec(d, f) == [dim |-> d, at |-> f]
Zeros(d) == [dim |-> d, at |-> <<>>]

Dot(u, v) ==
    LET K == (DOMAIN u.at) \cap (DOMAIN v.at)
    IN SumF([k \in K |-> u.at[k] * v.at[k]])

Norm2(u) == Dot(u, u)

\* sklearn.metrics.pairwise.cosine_similarity on two single rows, times ONE: rows
\* are l2-normalised (an all-zero row stays all-zero) and multiplied.
cosine_similarity(u, v) ==
    LET nu == Norm2(u)
        nv == Norm2(v)
    IN IF nu = 0 \/ nv = 0 THEN 0
       ELSE (ONE * Dot(u, v)) \div ISqrt(nu * nv)

-----------------------------------------------------------------------------
\* The sentence encoder, self.sentence_model (SentenceTransformer).  A pretrained
\* model is a fixed function from a text to a vector of SENTENCE_EMBEDDING_DIM
\* floats; this table stands for it.  Every non-zero vector of the table has
\* norm 5, so the cosine of two of them is exact in hundredths.

Emb(x, y) ==
    Vec(SENTENCE_EMBEDDING_DIM,
        [k \in {c \in 1..2 : <<x, y>>[c] # 0} |-> <<x, y>>[k]])

sentence_model_encode_one(text) ==
    LET w == IF StrStrip(text) = <<>> THEN "" ELSE StrStrip(text)[1]
    IN CASE w \in {"italian", "a", "cozy", "great"} -> Emb(3, 4)
         [] w \in {"pizzeria", "A", "warm"} -> Emb(4, 3)
         [] w \in {"japanese", "b", "loud"} -> Emb(-4, 3)
         [] w \in {"steakhouse", "B", "bad"} -> Emb(-3, -4)
         [] w \in {"restaurant", "c"} -> Emb(5, 0)
         [] w \in {"customer", "C"} -> Emb(0, 5)
         [] OTHER -> Emb(0, -5)

\* self.sentence_model.encode(texts, ...): one vector per text
sentence_model_encode(texts) == [i \in 1..Len(texts) |-> sentence_model_encode_one(texts[i])]

-----------------------------------------------------------------------------
\* Stored JSON text (the menu_highlights and tags columns) and json.loads.

JList(items) == [kind |-> "list", items |-> items, n |-> 0]
JMalformed == [kind |-> "malformed", items |-> <<>>, n |-> 0]
JEmptyText == [kind |-> "empty", items |-> <<>>, n |-> 0]
JNull == [kind |-> "null", items |-> <<>>, n |-> 0]
JNumber(n) == [kind |-> "number", items |-> <<>>, n |-> n]
JString(chars) == [kind |-> "string", items |-> chars, n |-> 0]
\* a text nested deeper than the interpreter's recursion limit
JTooDeep == [kind |-> "deep", items |-> <<>>, n |-> 0]

\* Python values a parsed field can hold
PyList(items) == [type |-> "list", items |-> items, n |-> 0]
PyNone == [type |-> "none", items |-> <<>>, n |-> 0]
PyInt(n) == [type |-> "int", items |-> <<>>, n |-> n]
PyStr(chars) == [type |-> "str", items |-> chars, n |-> 0]

\* bool(v)
Truthy(v) ==
    CASE v.type = "none" -> FALSE
      [] v.type = "int" -> v.n # 0
      [] OTHER -> v.items # <<>>

\* json.loads(text): [ok, value]; ok is FALSE when it raises
json_loads(text) ==
    CASE text.kind = "list" -> [ok |-> TRUE, value |-> PyList(text.items)]
      [] text.kind = "null" -> [ok |-> TRUE, value |-> PyNone]
      [] text.kind = "number" -> [ok |-> TRUE, value |-> PyInt(text.n)]
      [] text.kind = "string" -> [ok |-> TRUE, value |-> PyStr(text.items)]
      [] OTHER -> [ok |-> FALSE, value |-> PyList(<<>>)]

\* json.loads raises RecursionError, which `except (json.JSONDecodeError,
\* TypeError)` does not catch
JsonLoadsEscapes(column) == ~IsNone(column) /\ Get(column).kind = "deep"

\* the parse with a failure left as None
ParseJsonFieldNoCatch(column) ==
    IF IsNone(column) \/ Get(column).kind = "empty" THEN PyList(<<>>)
    ELSE IF json_loads(Get(column)).ok THEN json_loads(Get(column)).value
    ELSE PyNone

\* `if details and details.menu_highlights: try json.loads ... except: []`
ParseJsonField(column) ==
    IF IsNone(column) \/ Get(column).kind = "empty" THEN PyList(<<>>)
    ELSE IF json_loads(Get(column)).ok THEN json_loads(Get(column)).value
    ELSE PyList(<<>>)

-----------------------------------------------------------------------------
\* Rows (RestaurantModel, CityRestaurantModel with their RestaurantDetails) and
\* feature bundles (RestaurantFeatures).

Details(cuisine, price_level, description, review_summary, menu_highlights, tags) ==
    [cuisine |-> cuisine, price_level |-> price_level, description |-> description,
     review_summary |-> review_summary, menu_highlights |-> menu_highlights, tags |-> tags]

Row(id, name, details) == [id |-> id, name |-> name, details |-> details]

\* the try block of the loop body raises: an exception other than the two the
\* inner handlers catch leaves json.loads
ExtractionRaises(restaurant) ==
    /\ ~IsNone(restaurant.details)
    /\ \/ JsonLoadsEscapes(Get(restaurant.details).menu_highlights)
       \/ JsonLoadsEscapes(Get(restaurant.details).tags)

\* the bundle of the `except Exception` branch: id and name only
MinimalFeatures(restaurant) ==
    [restaurant_id |-> restaurant.id,
     name |-> restaurant.name,
     cuisine |-> Some(<<>>),
     price_level |-> None,
     description |-> Some(<<>>),
     review_summary |-> Some(<<>>),
     menu_highlights |-> PyList(<<>>),
     tags |-> PyList(<<>>),
     cuisine_vector |-> None,
     price_score |-> None,
     description_embeddings |-> None,
     review_embeddings |-> None,
     menu_embeddings |-> None,
     tags_embeddings |-> None]

\* a present-or-empty Python string of a details row: `x if details else ""`
RestaurantFeatures(restaurant) ==
    LET d == restaurant.details
        has == ~IsNone(d)
    IN IF ExtractionRaises(restaurant) THEN MinimalFeatures(restaurant) ELSE
       [restaurant_id |-> restaurant.id,
        name |-> restaurant.name,
        cuisine |-> IF has THEN Get(d).cuisine ELSE Some(<<>>),
        price_level |-> IF has THEN Get(d).price_level ELSE None,
        description |-> IF has THEN Get(d).description ELSE Some(<<>>),
        review_summary |-> IF has THEN Get(d).review_summary ELSE Some(<<>>),
        menu_highlights |-> IF has THEN ParseJsonField(Get(d).menu_highlights) ELSE PyList(<<>>),
        tags |-> IF has THEN ParseJsonField(Get(d).tags) ELSE PyList(<<>>),
        cuisine_vector |-> None,
        price_score |-> None,
        description_embeddings |-> None,
        review_embeddings |-> None,
        menu_embeddings |-> None,
        tags_embeddings |-> None]

\* the extraction with the records that raise left out
ExtractSkipFailed(restaurants) ==
    LET kept == SelectSeq(restaurants, LAMBDA r : ~ExtractionRaises(r))
    IN [i \in 1..Len(kept) |-> RestaurantFeatures(kept[i])]

\* extract_features_from_restaurants: one bundle per row, in order
extract_features_from_restaurants(restaurants) ==
    [i \in 1..Len(restaurants) |-> RestaurantFeatures(restaurants[i])]

\* truthiness of an Optional[str] field
StrTruthy(o) == ~IsNone(o) /\ Get(o) # <<>>

-----------------------------------------------------------------------------
\* process_cuisine_features, process_price_features, process_text_features.

\* `features.cuisine if features.cuisine else "restaurant"`
CuisineText(features) ==
    IF StrTruthy(features.cuisine) THEN Get(features.cuisine) ELSE <<"restaurant">>

\* ok is FALSE when self.sentence_model.encode raises
process_cuisine_features(features_list, ok) ==
    LET cuisine_texts == [i \in 1..Len(features_list) |-> CuisineText(features_list[i])]
        cuisine_embeddings == sentence_model_encode(cuisine_texts)
    IN [i \in 1..Len(features_list) |->
          [features_list[i] EXCEPT !.cuisine_vector =
              IF ok THEN Some(cuisine_embeddings[i]) ELSE Some(Zeros(SENTENCE_EMBEDDING_DIM))]]

\* (price_level - PRICE_SCALE_MIN) / (PRICE_SCALE_MAX - PRICE_SCALE_MIN), times ONE
PriceScore(features) ==
    IF ~IsNone(features.price_level)
    THEN ((Get(features.price_level) - PRICE_SCALE_MIN) * ONE)
            \div (PRICE_SCALE_MAX - PRICE_SCALE_MIN)
    ELSE NEUTRAL_SIMILARITY_SCORE

process_price_features(features_list) ==
    [i \in 1..Len(features_list) |->
        [features_list[i] EXCEPT !.price_score = Some(PriceScore(features_list[i]))]]

\* features.description.strip() raises AttributeError on None
TextFeaturesRaise(features_list) ==
    \E i \in 1..Len(features_list) :
        IsNone(features_list[i].description) \/ IsNone(features_list[i].review_summary)

DescriptionText(features) ==
    IF StrStrip(Get(features.description)) # <<>>
    THEN StrStrip(Get(features.description))
    ELSE features.name \o <<" ", "restaurant">>

ReviewText(features) ==
    IF StrStrip(Get(features.review_summary)) # <<>>
    THEN StrStrip(Get(features.review_summary))
    ELSE <<"customer", " ", "reviews">>

\* outcome: "ok", or which of the two encode calls raised
process_text_features(features_list, outcome) ==
    LET description_embeddings ==
            sentence_model_encode([i \in 1..Len(features_list) |-> DescriptionText(features_list[i])])
        review_embeddings ==
            sentence_model_encode([i \in 1..Len(features_list) |-> ReviewText(features_list[i])])
    IN [i \in 1..Len(features_list) |->
          IF outcome = "ok"
          THEN [features_list[i] EXCEPT
                   !.description_embeddings = Some(description_embeddings[i]),
                   !.review_embeddings = Some(review_embeddings[i])]
          ELSE [features_list[i] EXCEPT
                   !.description_embeddings = Some(Zeros(SENTENCE_EMBEDDING_DIM)),
                   !.review_embeddings = Some(Zeros(SENTENCE_EMBEDDING_DIM))]]

-----------------------------------------------------------------------------
\* TfidfVectorizer (scikit-learn), as far as the engine uses it.  A document is
\* the sequence of its tokens; a term is an n-gram, a sequence of 1..ngram_max
\* consecutive tokens.  fit learns the vocabulary: the terms of the batch, less
\* those in more than max_df of the documents or fewer than min_df, and raises
\* ValueError when none is left.  transform gives each document its vector
\* over the learnt vocabulary; terms outside it count for nothing.  The weight of
\* a term is its count in the document: the idf factor, a positive number learnt
\* with the vocabulary, is left out (so is the max_features cut, which no batch
\* of the model reaches).

\* token_pattern [a-zA-Z-]{2,} and stop_words='english'
IsToken(piece) == piece \notin {"", " ", "a", "b", "c", "A", "B", "C", "the", "and"}

Analyze(text) == SelectSeq(StrLower(text), IsToken)

NGrams(tokens, ngram_max) ==
    {SubSeq(tokens, p[1], p[2]) :
        p \in {q \in (1..Len(tokens)) \X (1..Len(tokens)) :
                 q[1] <= q[2] /\ q[2] - q[1] + 1 <= ngram_max}}

TermCount(term, tokens) ==
    Cardinality({i \in 1..(Len(tokens) - Len(term) + 1) :
                    SubSeq(tokens, i, i + Len(term) - 1) = term})

DocFrequency(term, docs, ngram_max) ==
    Cardinality({i \in 1..Len(docs) : term \in NGrams(docs[i], ngram_max)})

\* fit: [ok, vocabulary]; ok is FALSE when fit_transform raises ValueError
TfidfFit(texts, ngram_max, max_df) ==
    LET docs == [i \in 1..Len(texts) |-> Analyze(texts[i])]
        n == Len(docs)
        terms == UNION {NGrams(docs[i], ngram_max) : i \in 1..n}
        kept == {t \in terms :
                    /\ DocFrequency(t, docs, ngram_max) * 100 <= max_df * n
                    /\ DocFrequency(t, docs, ngram_max) >= TFIDF_MIN_DF}
    IN IF terms = {} \/ max_df * n < 100 * TFIDF_MIN_DF \/ kept = {}
       THEN [ok |-> FALSE, vocabulary |-> {}]
       ELSE [ok |-> TRUE, vocabulary |-> kept]

\* transform of one text over a learnt vocabulary
TfidfTransform(vocabulary, text) ==
    LET tokens == Analyze(text)
    IN Vec(Cardinality(vocabulary),
           [t \in {u \in vocabulary : TermCount(u, tokens) > 0} |-> TermCount(t, tokens)])

-----------------------------------------------------------------------------
\* process_menu_and_tags_features.

\* `for item in features.menu_highlights or []` raises TypeError on a non-zero number
IterRaises(value) == value.type = "int" /\ value.n # 0

\* len(features.menu_highlights) in the debug message raises TypeError
LenRaises(value) == value.type \in {"none", "int"}

RECURSIVE JoinWithSpace(_)
JoinWithSpace(items) ==
    IF Len(items) = 0 THEN <<>>
    ELSE IF Len(items) = 1 THEN <<items[1]>>
    ELSE <<items[1], " ">> \o JoinWithSpace(Tail(items))

\* " ".join([str(item).lower().strip('"') for item in items if item]), or the
\* fallback word when that is empty (no item of the model carries a quote)
ItemsText(value, fallback) ==
    LET items == IF Truthy(value) THEN value.items ELSE <<>>
        kept == SelectSeq(items, LAMBDA item : item # "")
        text == JoinWithSpace(StrLower(kept))
    IN IF text # <<>> THEN text ELSE <<fallback>>

MenuTagsRaise(features_list) ==
    \E i \in 1..Len(features_list) :
        IterRaises(features_list[i].menu_highlights) \/ IterRaises(features_list[i].tags)

\* The try block: [features, menu_fitted, menu_vocabulary, tags_fitted, tags_vocabulary].
\* The menu vectorizer is fitted on this batch when it is not fitted yet, and
\* only transforms otherwise; the same for the tags vectorizer.  Any exception
\* (a fit that raises, len() of a non-list) zeroes both vectors of every bundle
\* and keeps what was fitted before it.
process_menu_and_tags_features(features_list, m_fitted, m_vocabulary, t_fitted, t_vocabulary) ==
    LET n == Len(features_list)
        menu_texts == [i \in 1..n |-> ItemsText(features_list[i].menu_highlights, "food")]
        tag_texts == [i \in 1..n |-> ItemsText(features_list[i].tags, "restaurant")]
        menu_fit == IF m_fitted THEN [ok |-> TRUE, vocabulary |-> m_vocabulary]
                    ELSE TfidfFit(menu_texts, MENU_TFIDF_NGRAM_MAX, TFIDF_MAX_DF)
        \* reached only when the menu step did not raise
        tags_fit == IF t_fitted THEN [ok |-> TRUE, vocabulary |-> t_vocabulary]
                    ELSE TfidfFit(tag_texts, TAGS_TFIDF_NGRAM_MAX, TAGS_MAX_DF)
        len_raises == \E i \in 1..n : LenRaises(features_list[i].menu_highlights)
                                        \/ LenRaises(features_list[i].tags)
        ok == menu_fit.ok /\ tags_fit.ok /\ ~len_raises
    IN [features |->
          [i \in 1..n |->
             IF ok
             THEN [features_list[i] EXCEPT
                     !.menu_embeddings = Some(TfidfTransform(menu_fit.vocabulary, menu_texts[i])),
                     !.tags_embeddings = Some(TfidfTransform(tags_fit.vocabulary, tag_texts[i]))]
             ELSE [features_list[i] EXCEPT
                     !.menu_embeddings = Some(Zeros(MENU_TFIDF_MAX_FEATURES)),
                     !.tags_embeddings = Some(Zeros(TAGS_TFIDF_MAX_FEATURES))]],
        menu_fitted |-> m_fitted \/ menu_fit.ok,
        menu_vocabulary |-> IF menu_fit.ok THEN menu_fit.vocabulary ELSE m_vocabulary,
        tags_fitted |-> t_fitted \/ (menu_fit.ok /\ tags_fit.ok),
        tags_vocabulary |-> IF menu_fit.ok /\ tags_fit.ok THEN tags_fit.vocabulary
                            ELSE t_vocabulary]

-----------------------------------------------------------------------------
\* calculate_feature_similarities.

\* cosine_similarity raises ValueError on rows of different lengths; the three
\* sentence-embedding features call it without comparing the lengths first
EmbeddingPairRaises(a, b) ==
    \/ (~IsNone(a.cuisine_vector) /\ ~IsNone(b.cuisine_vector)
          /\ Get(a.cuisine_vector).dim # Get(b.cuisine_vector).dim)
    \/ (~IsNone(a.description_embeddings) /\ ~IsNone(b.description_embeddings)
          /\ Get(a.description_embeddings).dim # Get(b.description_embeddings).dim)
    \/ (~IsNone(a.review_embeddings) /\ ~IsNone(b.review_embeddings)
          /\ Get(a.review_embeddings).dim # Get(b.review_embeddings).dim)

\* the cosine floored at 0, without the shift from [-1, 1] to [0, 1]
EmbeddingSimNoOffset(x, y) ==
    IF ~IsNone(x) /\ ~IsNone(y)
    THEN Max(0, cosine_similarity(Get(x), Get(y)))
    ELSE NEUTRAL_SIMILARITY_SCORE

\* (cos + COSINE_SIM_NORMALIZATION_OFFSET) / 2, or the neutral score
EmbeddingSim(x, y) ==
    IF ~IsNone(x) /\ ~IsNone(y)
    THEN (cosine_similarity(Get(x), Get(y)) + COSINE_SIM_NORMALIZATION_OFFSET) \div 2
    ELSE NEUTRAL_SIMILARITY_SCORE

\* the price proximity without the floor at 0
PriceSimNoFloor(x, y) ==
    IF ~IsNone(x) /\ ~IsNone(y)
    THEN ONE - Abs(Get(x) - Get(y))
    ELSE NEUTRAL_SIMILARITY_SCORE

\* max(0, 1.0 - abs(price_a - price_b)), or the neutral score
PriceSim(x, y) ==
    IF ~IsNone(x) /\ ~IsNone(y)
    THEN Max(0, ONE - Abs(Get(x) - Get(y)))
    ELSE NEUTRAL_SIMILARITY_SCORE

\* max(0, (cos + 1) / 2) when both are set and of the same length, else neutral
TfidfSim(x, y) ==
    IF ~IsNone(x) /\ ~IsNone(y) /\ Get(x).dim = Get(y).dim
    THEN Max(0, (cosine_similarity(Get(x), Get(y)) + ONE) \div 2)
    ELSE NEUTRAL_SIMILARITY_SCORE

PairScores(city_restaurant, user_restaurant) ==
    [cuisine |-> EmbeddingSim(city_restaurant.cuisine_vector, user_restaurant.cuisine_vector),
     price |-> PriceSim(city_restaurant.price_score, user_restaurant.price_score),
     description |-> EmbeddingSim(city_restaurant.description_embeddings,
                                  user_restaurant.description_embeddings),
     review |-> EmbeddingSim(city_restaurant.review_embeddings,
                             user_restaurant.review_embeddings),
     menu |-> TfidfSim(city_restaurant.menu_embeddings, user_restaurant.menu_embeddings),
     tags |-> TfidfSim(city_restaurant.tags_embeddings, user_restaurant.tags_embeddings)]

\* the weighted sum without the tags term
WeightedSimNoTags(scores) ==
    scores.cuisine * feature_weights.cuisine
    + scores.price * feature_weights.price
    + scores.description * feature_weights.description
    + scores.review * feature_weights.review
    + scores.menu * feature_weights.menu

\* the weighted sum over the six features, in units of 1 / (ONE * WEIGHT_ONE)
WeightedSim(scores) ==
    scores.cuisine * feature_weights.cuisine
    + scores.price * feature_weights.price
    + scores.description * feature_weights.description
    + scores.review * feature_weights.review
    + scores.menu * feature_weights.menu
    + scores.tags * feature_weights.tags

\* np.max and np.argmax of a row (argmax: the first index of the maximum)
RowMax(row) == CHOOSE m \in {row[j] : j \in 1..Len(row)} : \A j \in 1..Len(row) : row[j] <= m
ArgMax(row) ==
    LET m == RowMax(row)
    IN CHOOSE j \in 1..Len(row) : row[j] = m /\ \A k \in 1..(j - 1) : row[k] # m

\* city_scores[i][j] = [scores, weighted_sim]
PairEntry(city_restaurant, user_restaurant) ==
    LET scores == PairScores(city_restaurant, user_restaurant)
    IN [scores |-> scores, weighted_sim |-> WeightedSim(scores)]

CityScores(user_list, city_list) ==
    [i \in 1..Len(city_list) |->
        [j \in 1..Len(user_list) |-> PairEntry(city_list[i], user_list[j])] \o <<>>] \o <<>>

SimilaritiesRaise(user_list, city_list) ==
    \E i \in 1..Len(city_list), j \in 1..Len(user_list) :
        EmbeddingPairRaises(city_list[i], user_list[j])

-----------------------------------------------------------------------------
\* get_recommendations, after the similarities: best score per candidate, the
\* name filter, the sort and the cut.

\* city_restaurant_scores: one entry per candidate row, in input order
CityRestaurantScores(city_rows, matrix, details) ==
    [i \in 1..Len(city_rows) |->
        [restaurant |-> city_rows[i],
         similarity |-> RowMax(matrix[i]),
         feature_scores |-> details[i]]]

UserRestaurantNames(user_rows) ==
    {NormalizedName(user_rows[j].name) : j \in 1..Len(user_rows)}

\* the filter loop: keep an entry unless its normalised name is a reference's
\* or was kept before
RECURSIVE FilterKeepReferences(_, _, _)
\* the filter loop without the test against the reference names
FilterKeepReferences(scores, user_restaurant_names, seen_names) ==
    IF scores = <<>> THEN <<>>
    ELSE LET city_name == NormalizedName(Head(scores).restaurant.name)
         IN IF city_name \notin seen_names
            THEN <<Head(scores)>>
                   \o FilterKeepReferences(Tail(scores), user_restaurant_names,
                                           seen_names \cup {city_name})
            ELSE FilterKeepReferences(Tail(scores), user_restaurant_names, seen_names)

RECURSIVE FilterCityScores(_, _, _)

FilterCityScores(scores, user_restaurant_names, seen_names) ==
    IF scores = <<>> THEN <<>>
    ELSE LET city_name == NormalizedName(Head(scores).restaurant.name)
         IN IF city_name \notin user_restaurant_names /\ city_name \notin seen_names
            THEN <<Head(scores)>>
                   \o FilterCityScores(Tail(scores), user_restaurant_names,
                                       seen_names \cup {city_name})
            ELSE FilterCityScores(Tail(scores), user_restaurant_names, seen_names)

\* list.sort(key=similarity, reverse=True): stable, equal keys keep their order
RECURSIVE InsertBySimilarity(_, _)
InsertBySimilarity(sorted, x) ==
    IF sorted = <<>> THEN <<x>>
    ELSE IF Head(sorted).similarity >= x.similarity
         THEN <<Head(sorted)>> \o InsertBySimilarity(Tail(sorted), x)
         ELSE <<x>> \o sorted

\* the list left in input order
SortSkipped(scores) == scores
RECURSIVE SortBySimilarity(_)

SortBySimilarity(scores) ==
    IF scores = <<>> THEN <<>>
    ELSE InsertBySimilarity(SortBySimilarity(SubSeq(scores, 1, Len(scores) - 1)),
                            scores[Len(scores)])

\* a cut that keeps the last entries instead of the first
SliceFromEnd(scores, k) ==
    SubSeq(scores, Len(scores) - Min(Max(k, 0), Len(scores)) + 1, Len(scores))

\* a cut that keeps one entry fewer
SliceOneShort(scores, k) ==
    SubSeq(scores, 1, Min(k, Len(scores)) - 1)

\* scores[:k]: the first k entries, all but the last -k when k is negative
Slice(scores, k) ==
    IF k >= 0 THEN SubSeq(scores, 1, Min(k, Len(scores)))
    ELSE SubSeq(scores, 1, Max(Len(scores) + k, 0))

RecommendationResult(rec) ==
    [restaurant_id |-> rec.restaurant.id,
     restaurant_name |-> rec.restaurant.name,
     similarity_score |-> rec.similarity,
     feature_scores |-> rec.feature_scores]

\* the ranking with the sort before the name filter
TopRecommendationsSortFirst(user_rows, city_rows, matrix, details, k) ==
    LET city_restaurant_scores == CityRestaurantScores(city_rows, matrix, details)
        filtered_city_scores ==
            FilterCityScores(SortBySimilarity(city_restaurant_scores),
                             UserRestaurantNames(user_rows), {})
        top_recommendations == Slice(filtered_city_scores, k)
    IN [i \in 1..Len(top_recommendations) |-> RecommendationResult(top_recommendations[i])]

TopRecommendations(user_rows, city_rows, matrix, details, k) ==
    LET city_restaurant_scores == CityRestaurantScores(city_rows, matrix, details)
        filtered_city_scores ==
            FilterCityScores(city_restaurant_scores, UserRestaurantNames(user_rows), {})
        top_recommendations == Slice(SortBySimilarity(filtered_city_scores), k)
    IN [i \in 1..Len(top_recommendations) |-> RecommendationResult(top_recommendations[i])]

\* get_recommendations as a function of its arguments and of the vectorizer
\* state it finds on the engine, when the encoder works: [raised, recommendations]
get_recommendations(user_rows, city_rows, k, m_fitted, m_vocabulary, t_fitted, t_vocabulary) ==
    LET n == Len(user_rows)
        extracted == extract_features_from_restaurants(user_rows)
                        \o extract_features_from_restaurants(city_rows)
        priced == process_price_features(process_cuisine_features(extracted, TRUE))
        processed == process_menu_and_tags_features(process_text_features(priced, "ok"),
                        m_fitted, m_vocabulary, t_fitted, t_vocabulary).features
        user_list == SubSeq(processed, 1, n)
        city_list == SubSeq(processed, n + 1, Len(processed))
        scores == CityScores(user_list, city_list)
    IN IF Len(user_rows) = 0 \/ Len(city_rows) = 0
       THEN [raised |-> FALSE, recommendations |-> <<>>]
       ELSE IF TextFeaturesRaise(priced) \/ MenuTagsRaise(priced)
       THEN [raised |-> TRUE, recommendations |-> <<>>]
       ELSE IF SimilaritiesRaise(user_list, city_list)
       THEN [raised |-> TRUE, recommendations |-> <<>>]
       ELSE [raised |-> FALSE,
             recommendations |->
                 TopRecommendations(user_rows, city_rows,
                                    [i \in 1..Len(scores) |->
                                        [j \in 1..n |-> scores[i][j].weighted_sim]],
                                    [i \in 1..Len(scores) |->
                                        scores[i][ArgMax([j \in 1..n |->
                                                     scores[i][j].weighted_sim])].scores],
                                    k)]

-----------------------------------------------------------------------------
\* groq_service: the rate limiter, the cache and the clock.  Times are held in
\* tenths of a second.  The modules are loaded well after the epoch, so the
\* clock starts a minute after last_request_time = 0; a run of the model is
\* shorter than a day, so the daily reset of lines 59-63 does not occur in it.

SECOND == 10
MINUTE == 60 * SECOND
\* MIN_REQUEST_INTERVAL = 0.6
MIN_REQUEST_INTERVAL == 6
\* RATE_LIMITS[PRIMARY_MODEL]
REQUESTS_PER_MINUTE == 55
REQUESTS_PER_DAY == 1000
\* await asyncio.sleep(2) before the retry
RETRY_DELAY == 2 * SECOND
PRIMARY_MODEL == "moonshotai/kimi-k2-instruct"

\* a dict, as a function on the keys it holds
EmptyCache == [key \in {} |-> FALSE]
Put(dict, key, value) ==
    [k \in DOMAIN dict \cup {key} |-> IF k = key THEN value ELSE dict[k]]

\* the fields of GroqResponse the calls differ in
GroqResponse(success, model_used) == [success |-> success, model_used |-> model_used]

\* the handlers running on the event loop that call get_restaurant_details:
\* one per search request in progress
SearchRequests == {1, 2}

\* a caller between two get_restaurant_details calls, after `calls` of them
Idle(calls) ==
    [pc |-> "idle", key |-> 0, attempt |-> 0, wake |-> 0, sends |-> 0, started |-> 0,
     calls |-> calls]

\* the lookup clients: search_locations, search_restaurants,
\* get_city_bounding_box, search_city_restaurants
LookupClients == {"locations", "restaurants", "bbox", "city"}

-----------------------------------------------------------------------------
\* The state machine.  The engine is the module-level recommendation_system;
\* get_recommendations is synchronous, so one call runs at a time.


Init ==
    /\ menu_tfidf_fitted = FALSE
    /\ tags_tfidf_fitted = FALSE
    /\ menu_vocabulary = {}
    /\ tags_vocabulary = {}
    /\ pc = "idle"
    /\ user_restaurants = <<>>
    /\ city_restaurants = <<>>
    /\ top_k = 0
    /\ all_features = <<>>
    /\ encoder_log = <<>>
    /\ city_scores = <<>>
    /\ similarity_matrix = <<>>
    /\ feature_details = <<>>
    /\ recommendations = <<>>
    /\ history = <<>>
    /\ now = MINUTE
    /\ groq_cache = EmptyCache
    /\ last_request_time = 0
    /\ request_lock = 0
    /\ request_timestamps_primary = <<>>
    /\ daily_request_count_primary = 0
    /\ coroutines = [c \in SearchRequests |-> Idle(0)]
    /\ sent = <<>>
    /\ returned = <<>>
    /\ lookup_cache = [client \in LookupClients |-> EmptyCache]
    /\ lookup_log = <<>>
    /\ explanation = None

engine == <<menu_tfidf_fitted, tags_tfidf_fitted, menu_vocabulary, tags_vocabulary>>
locals == <<all_features, encoder_log, city_scores, similarity_matrix, feature_details,
            recommendations>>
arguments == <<user_restaurants, city_restaurants, top_k>>

\* the rows of a query result: the contents with their primary keys
WithIds(contents) ==
    [i \in 1..Len(contents) |-> Row(i, contents[i].name, contents[i].details)]

user_features == SubSeq(all_features, 1, Len(user_restaurants))
city_features == SubSeq(all_features, Len(user_restaurants) + 1, Len(all_features))

\* a caller calls get_recommendations(user_restaurants, city_restaurants, top_k)
GetRecommendations(Inputs, max_calls) ==
    /\ pc = "idle"
    /\ Len(history) < max_calls
    /\ \E input \in Inputs :
          /\ user_restaurants' = WithIds(input[1])
          /\ city_restaurants' = WithIds(input[2])
          /\ top_k' = input[3]
    /\ pc' = "extract"
    /\ UNCHANGED <<engine, locals, history>>
    /\ UNCHANGED clients

\* the extraction step without the early return
ExtractFeaturesNoEarlyReturn ==
    /\ pc = "extract"
    /\ all_features' = extract_features_from_restaurants(user_restaurants)
                          \o extract_features_from_restaurants(city_restaurants)
    /\ pc' = "cuisine"
    /\ UNCHANGED <<engine, arguments, encoder_log, city_scores, similarity_matrix,
                   feature_details, recommendations, history>>
    /\ UNCHANGED clients

\* lines 438-444: extract both lists; return [] when either is empty
ExtractFeatures ==
    /\ pc = "extract"
    /\ all_features' = extract_features_from_restaurants(user_restaurants)
                          \o extract_features_from_restaurants(city_restaurants)
    /\ IF Len(user_restaurants) = 0 \/ Len(city_restaurants) = 0
       THEN pc' = "done"
       ELSE pc' = "cuisine"
    /\ UNCHANGED <<engine, arguments, encoder_log, city_scores, similarity_matrix,
                   feature_details, recommendations, history>>
    /\ UNCHANGED clients

\* line 448
ProcessCuisine(EncoderOutcomes) ==
    /\ pc = "cuisine"
    /\ \E ok \in {o \in BOOLEAN : o \/ "cuisine" \in EncoderOutcomes} :
          /\ all_features' = process_cuisine_features(all_features, ok)
          /\ encoder_log' = encoder_log \o <<IF ok THEN "ok" ELSE "cuisine">>
    /\ pc' = "price"
    /\ UNCHANGED <<engine, arguments, city_scores, similarity_matrix, feature_details,
                   recommendations, history>>
    /\ UNCHANGED clients

\* line 449
ProcessPrice ==
    /\ pc = "price"
    /\ all_features' = process_price_features(all_features)
    /\ pc' = "text"
    /\ UNCHANGED <<engine, arguments, encoder_log, city_scores, similarity_matrix,
                   feature_details, recommendations, history>>
    /\ UNCHANGED clients

\* line 450; an AttributeError of the text loop propagates out of the call
ProcessText(EncoderOutcomes) ==
    /\ pc = "text"
    /\ IF TextFeaturesRaise(all_features)
       THEN /\ pc' = "raised"
            /\ UNCHANGED <<all_features, encoder_log>>
       ELSE /\ \E outcome \in {"ok"} \cup (EncoderOutcomes \cap {"description", "review"}) :
                  /\ all_features' = process_text_features(all_features, outcome)
                  /\ encoder_log' = encoder_log \o <<outcome>>
            /\ pc' = "menu_tags"
    /\ UNCHANGED <<engine, arguments, city_scores, similarity_matrix, feature_details,
                   recommendations, history>>
    /\ UNCHANGED clients

\* line 451; a TypeError of the text loop propagates out of the call
ProcessMenuTags ==
    /\ pc = "menu_tags"
    /\ IF MenuTagsRaise(all_features)
       THEN /\ pc' = "raised"
            /\ UNCHANGED <<all_features, engine>>
       ELSE \E r \in {process_menu_and_tags_features(all_features, menu_tfidf_fitted,
                          menu_vocabulary, tags_tfidf_fitted, tags_vocabulary)} :
               /\ all_features' = r.features
               /\ menu_tfidf_fitted' = r.menu_fitted
               /\ menu_vocabulary' = r.menu_vocabulary
               /\ tags_tfidf_fitted' = r.tags_fitted
               /\ tags_vocabulary' = r.tags_vocabulary
               /\ pc' = "similarity"
    /\ UNCHANGED <<arguments, encoder_log, city_scores, similarity_matrix, feature_details,
                   recommendations, history>>
    /\ UNCHANGED clients

\* the matrix and the best-match details that go with city_scores
SimilarityMatrix(cs) ==
    [i \in 1..Len(cs) |-> [j \in 1..Len(cs[i]) |-> cs[i][j].weighted_sim] \o <<>>] \o <<>>

\* the details of the first reference, whichever reference scores best
FeatureDetailsFirst(cs) ==
    [i \in 1..Len(cs) |-> cs[i][1].scores] \o <<>>

FeatureDetails(cs) ==
    [i \in 1..Len(cs) |->
        cs[i][ArgMax([j \in 1..Len(cs[i]) |-> cs[i][j].weighted_sim] \o <<>>)].scores] \o <<>>

\* line 454: calculate_feature_similarities(user_features, city_features)
CalculateSimilarities ==
    /\ pc = "similarity"
    /\ IF SimilaritiesRaise(user_features, city_features)
       THEN /\ pc' = "raised"
            /\ UNCHANGED <<city_scores, similarity_matrix, feature_details>>
       ELSE /\ city_scores' = CityScores(user_features, city_features)
            /\ similarity_matrix' = SimilarityMatrix(city_scores')
            /\ feature_details' = FeatureDetails(city_scores')
            /\ pc' = "rank"
    /\ UNCHANGED <<engine, arguments, all_features, encoder_log, recommendations, history>>
    /\ UNCHANGED clients

\* lines 456-511
Rank ==
    /\ pc = "rank"
    /\ recommendations' = TopRecommendations(user_restaurants, city_restaurants,
                                             similarity_matrix, feature_details, top_k)
    /\ pc' = "done"
    /\ UNCHANGED <<engine, arguments, all_features, encoder_log, city_scores,
                   similarity_matrix, feature_details, history>>
    /\ UNCHANGED clients

\* the call ends, by return or by the exception; its locals are gone
Return ==
    /\ pc \in {"done", "raised"}
    /\ history' = Append(history,
                         [user_restaurants |-> user_restaurants,
                          city_restaurants |-> city_restaurants,
                          top_k |-> top_k,
                          encoder_log |-> encoder_log,
                          fresh |-> Len(history) = 0,
                          raised |-> pc = "raised",
                          recommendations |-> recommendations])
    /\ pc' = "idle"
    /\ user_restaurants' = <<>>
    /\ city_restaurants' = <<>>
    /\ top_k' = 0
    /\ all_features' = <<>>
    /\ encoder_log' = <<>>
    /\ city_scores' = <<>>
    /\ similarity_matrix' = <<>>
    /\ feature_details' = <<>>
    /\ recommendations' = <<>>
    /\ UNCHANGED engine
    /\ UNCHANGED clients

\* a caller calls calculate_feature_similarities(user_features, city_features)
\* itself, with bundles it has processed; the rows are those of the bundles
CallCalculateSimilarities(UserLists, CityLists) ==
    /\ pc = "idle"
    /\ history = <<>>
    /\ \E u \in UserLists, c \in CityLists :
          /\ all_features' = u \o c
          /\ user_restaurants' = [i \in 1..Len(u) |-> Row(u[i].restaurant_id, u[i].name, None)]
          /\ city_restaurants' = [i \in 1..Len(c) |-> Row(c[i].restaurant_id, c[i].name, None)]
    /\ pc' = "similarity"
    /\ UNCHANGED <<engine, top_k, encoder_log, city_scores, similarity_matrix,
                   feature_details, recommendations, history>>
    /\ UNCHANGED clients

Next(Inputs, EncoderOutcomes, max_calls) ==
    \/ GetRecommendations(Inputs, max_calls)
    \/ ExtractFeatures
    \/ ProcessCuisine(EncoderOutcomes)
    \/ ProcessPrice
    \/ ProcessText(EncoderOutcomes)
    \/ ProcessMenuTags
    \/ CalculateSimilarities
    \/ Rank
    \/ Return

-----------------------------------------------------------------------------
\* The inputs the calls are drawn from.

SeqsUpTo(S, n) == UNION {[1..k -> S] : k \in 0..n}

Content(name, details) == [name |-> name, details |-> details]

NoList == Some(JList(<<>>))

\* Ranking inputs: names that collide after lower/strip, scores that differ and tie.
RankReferences ==
    {Content(<<"a">>, Some(Details(Some(<<"italian">>), Some(3), Some(<<"cozy">>),
                                   Some(<<"great">>), NoList, NoList))),
     Content(<<"C", " ">>, Some(Details(Some(<<"japanese">>), Some(1), Some(<<"loud">>),
                                        Some(<<"bad">>), NoList, NoList)))}

RankCandidates ==
    {Content(<<" ", "A">>, Some(Details(Some(<<"italian">>), Some(3), Some(<<"cozy">>),
                                        Some(<<"great">>), NoList, NoList))),
     Content(<<"b">>, Some(Details(Some(<<"steakhouse">>), Some(5), Some(<<"loud">>),
                                   Some(<<"bad">>), NoList, NoList))),
     Content(<<"B", " ">>, Some(Details(Some(<<"pizzeria">>), Some(3), Some(<<"warm">>),
                                        Some(<<"great">>), NoList, NoList))),
     Content(<<"b", " ", "c">>, Some(Details(Some(<<"pizzeria">>), Some(3), Some(<<"warm">>),
                                             Some(<<"great">>), NoList, NoList))),
     Content(<<"c">>, None)}

RankTopKs == {-1, 0, 1, 2}

RankReferenceLists == {<<>>} \cup {<<x>> : x \in RankReferences}
                        \cup {<<p[1], p[2]>> : p \in {q \in RankReferences \X RankReferences :
                                                              q[1] # q[2]}}

RankInputs ==
    {<<u, c, k>> : u \in RankReferenceLists,
                   c \in SeqsUpTo(RankCandidates, MaxCands),
                   k \in RankTopKs}

\* Feature inputs: every kind of value a details row can hold.
FeatReferences ==
    {Content(<<"a">>, Some(Details(Some(<<"italian">>), Some(3), Some(<<"cozy">>),
                                   Some(<<"great">>),
                                   Some(JList(<<"pizza", "pasta">>)),
                                   Some(JList(<<"casual">>))))),
     Content(<<"b">>, Some(Details(Some(<<"japanese">>), Some(1), Some(<<"loud">>),
                                   Some(<<"bad">>),
                                   Some(JList(<<"sushi">>)),
                                   Some(JList(<<"upscale">>))))),
     Content(<<"c">>, None)}

FeatCandidates ==
    {Content(<<"A", "a">>, Some(Details(Some(<<"italian">>), Some(3), Some(<<"cozy">>),
                                        Some(<<"great">>),
                                        Some(JList(<<"pizza", "pasta">>)),
                                        Some(JList(<<"casual">>))))),
     Content(<<"B", "b">>, Some(Details(Some(<<"steakhouse">>), Some(6), Some(<<"warm">>),
                                        Some(<<"bad">>),
                                        Some(JList(<<"Pizza", "", "sushi">>)),
                                        Some(JList(<<"upscale", "casual">>))))),
     Content(<<"C", "c">>, Some(Details(Some(<<"japanese">>), Some(0), Some(<<" ">>),
                                        Some(<<>>),
                                        Some(JMalformed),
                                        None))),
     Content(<<"b", "a">>, Some(Details(Some(<<>>), None, Some(<<>>), Some(<<>>),
                                        NoList, Some(JEmptyText)))),
     Content(<<"c", "a">>, None),
     Content(<<"c", "b">>, Some(Details(None, Some(5), None, Some(<<"great">>),
                                        NoList, NoList))),
     Content(<<"a", "b">>, Some(Details(Some(<<"pizzeria">>), Some(2), Some(<<"cozy">>),
                                        Some(<<"great">>),
                                        Some(JNull),
                                        Some(JList(<<"casual">>))))),
     Content(<<"a", "c">>, Some(Details(Some(<<"pizzeria">>), Some(4), Some(<<"cozy">>),
                                        Some(<<"great">>),
                                        Some(JList(<<"pasta">>)),
                                        Some(JNumber(5)))))}

FeatTopKs == {10}

FeatInputs ==
    {<<u, c, k>> : u \in SeqsUpTo(FeatReferences, MaxFeatRefs),
                   c \in SeqsUpTo(FeatCandidates, MaxFeatCands),
                   k \in FeatTopKs}

\* Inputs of successive calls on the one engine: menus and tags that differ.
CallRows ==
    [pizza |-> Content(<<"a">>, Some(Details(Some(<<"italian">>), Some(3), Some(<<"cozy">>),
                                             Some(<<"great">>),
                                             Some(JList(<<"pizza">>)),
                                             Some(JList(<<"casual">>))))),
     pizza2 |-> Content(<<"b">>, Some(Details(Some(<<"italian">>), Some(3), Some(<<"cozy">>),
                                              Some(<<"great">>),
                                              Some(JList(<<"pizza">>)),
                                              Some(JList(<<"upscale">>))))),
     sushi |-> Content(<<"c">>, Some(Details(Some(<<"japanese">>), Some(1), Some(<<"loud">>),
                                             Some(<<"bad">>),
                                             Some(JList(<<"sushi">>)),
                                             Some(JList(<<"upscale">>))))),
     plain |-> Content(<<"b", "c">>, None)]

CallInputs ==
    {<<u, c, k>> : u \in {<<CallRows.pizza>>},
                   c \in {<<CallRows.pizza2>>, <<CallRows.sushi>>, <<CallRows.plain>>,
                          <<CallRows.pizza2, CallRows.sushi>>,
                          <<CallRows.sushi, CallRows.pizza2>>,
                          <<CallRows.pizza2, CallRows.plain>>},
                   k \in {10}}

AllEncoderOutcomes == {"cuisine", "description", "review"}

-----------------------------------------------------------------------------
\* Specifications.

\* one call, ranking inputs, the encoder works
NextRank == Next(RankInputs, {}, 1)
SpecRank == Init /\ [][NextRank]_vars

\* one call on the fresh engine, feature inputs, the encoder may raise
NextFeat == Next(FeatInputs, AllEncoderOutcomes, 1)
SpecFeat == Init /\ [][NextFeat]_vars

\* up to MaxCalls calls, one after the other, on the one engine
NextCalls == Next(CallInputs, {}, MaxCalls)
SpecCalls == Init /\ [][NextCalls]_vars

\* Bundles handed to calculate_feature_similarities directly: the vectors of a
\* bundle have the lengths its producer gave them.
ShortEmb == Vec(2, <<3, 4>>)
ShortTfidf == Vec(2, <<1, 1>>)
LongTfidf == Vec(3, <<1, 0, 1>>)

ProcessedBundle(id, name, cuisine_vector, description_embeddings, review_embeddings, menu_embeddings, tags_embeddings) ==
    [RestaurantFeatures(Row(id, name, None)) EXCEPT
        !.cuisine_vector = Some(cuisine_vector),
        !.price_score = Some(NEUTRAL_SIMILARITY_SCORE),
        !.description_embeddings = Some(description_embeddings),
        !.review_embeddings = Some(review_embeddings),
        !.menu_embeddings = Some(menu_embeddings),
        !.tags_embeddings = Some(tags_embeddings)]

SimReferences ==
    {ProcessedBundle(1, <<"a">>, Emb(3, 4), Emb(3, 4), Emb(3, 4), LongTfidf, LongTfidf),
     ProcessedBundle(1, <<"a">>, Emb(4, 3), Emb(-4, 3), Emb(3, 4), ShortTfidf, LongTfidf)}

SimCandidates ==
    {ProcessedBundle(2, <<"b">>, Emb(3, 4), Emb(4, 3), Emb(-4, 3), LongTfidf, LongTfidf),
     ProcessedBundle(2, <<"b">>, ShortEmb, Emb(4, 3), Emb(-4, 3), LongTfidf, LongTfidf),
     ProcessedBundle(2, <<"b">>, Emb(3, 4), ShortEmb, Emb(-4, 3), LongTfidf, LongTfidf),
     ProcessedBundle(2, <<"b">>, Emb(3, 4), Emb(4, 3), ShortEmb, LongTfidf, LongTfidf),
     ProcessedBundle(2, <<"b">>, Emb(3, 4), Emb(4, 3), Emb(-4, 3), ShortTfidf, LongTfidf),
     ProcessedBundle(2, <<"b">>, Emb(3, 4), Emb(4, 3), Emb(-4, 3), LongTfidf, ShortTfidf),
     ProcessedBundle(2, <<"b">>, Emb(3, 4), Emb(4, 3), Emb(-4, 3), ShortTfidf, ShortTfidf)}

SimUserLists == {<<r>> : r \in SimReferences}
SimCityLists == SeqsUpTo(SimCandidates, MaxSimCands) \ {<<>>}

\* one direct call of calculate_feature_similarities
NextSim ==
    \/ CallCalculateSimilarities(SimUserLists, SimCityLists)
    \/ CalculateSimilarities
SpecSim == Init /\ [][NextSim]_vars

\* Extraction inputs: records whose stored menu or tags text fails to parse or
\* makes the extraction of the record fail, next to records that are in order.
ExtractRows ==
    [good |-> Content(<<"a">>, Some(Details(Some(<<"italian">>), Some(3), Some(<<"cozy">>),
                                            Some(<<"great">>),
                                            Some(JList(<<"pizza">>)),
                                            Some(JList(<<"casual">>))))),
     failing |-> Content(<<"b">>, Some(Details(Some(<<"japanese">>), Some(1), Some(<<"loud">>),
                                               Some(<<"bad">>),
                                               Some(JList(<<"sushi">>)),
                                               Some(JTooDeep)))),
     malformed_menu |-> Content(<<"c">>, Some(Details(Some(<<"steakhouse">>), Some(5),
                                                      Some(<<"warm">>), Some(<<"bad">>),
                                                      Some(JMalformed),
                                                      Some(JList(<<"upscale">>))))),
     malformed_tags |-> Content(<<"b", "c">>, Some(Details(Some(<<"pizzeria">>), Some(2),
                                                           Some(<<"cozy">>), Some(<<"great">>),
                                                           Some(JList(<<"pasta">>)),
                                                           Some(JMalformed)))),
     failing_menu |-> Content(<<"c", "a">>, Some(Details(Some(<<"italian">>), Some(4),
                                                         Some(<<"loud">>), Some(<<"great">>),
                                                         Some(JTooDeep),
                                                         Some(JMalformed))))]

ExtractReferenceLists ==
    {<<>>, <<ExtractRows.good>>, <<ExtractRows.failing, ExtractRows.good>>,
     <<ExtractRows.malformed_menu, ExtractRows.good>>}

ExtractCandidates ==
    {ExtractRows.failing, ExtractRows.malformed_menu, ExtractRows.malformed_tags,
     ExtractRows.failing_menu}

ExtractInputs ==
    {<<u, c, k>> : u \in ExtractReferenceLists,
                   c \in SeqsUpTo(ExtractCandidates, MaxExtractCands),
                   k \in {10}}

\* one call on the fresh engine, extraction inputs, the encoder works
NextExtract == Next(ExtractInputs, {}, 1)
SpecExtract == Init /\ [][NextExtract]_vars

\* Inputs of calls with a single reference and candidates that have the
\* reference's six features, or differ from it in one of them.
MonoDetails ==
    [full |-> Details(Some(<<"italian">>), Some(3), Some(<<"cozy">>), Some(<<"great">>),
                      Some(JList(<<"pizza">>)), Some(JList(<<"casual">>))),
     no_description |-> Details(Some(<<"italian">>), Some(3), Some(<<>>), Some(<<"great">>),
                                Some(JList(<<"pizza">>)), Some(JList(<<"casual">>)))]

\* the reference has every field; the candidates have its fields or differ in one
MonoFullReference == Content(<<"a">>, Some(MonoDetails.full))

MonoFullCandidates ==
    {Content(<<"b">>, Some(MonoDetails.full)),
     Content(<<"c">>, Some([MonoDetails.full EXCEPT !.cuisine = Some(<<"japanese">>)])),
     Content(<<"c">>, Some([MonoDetails.full EXCEPT !.price_level = Some(5)])),
     Content(<<"c">>, Some([MonoDetails.full EXCEPT
                               !.menu_highlights = Some(JList(<<"sushi">>))]))}

\* the reference has no description; one candidate has for description the very
\* text the reference's missing description is replaced by
MonoBareReference == Content(<<"a">>, Some(MonoDetails.no_description))

MonoBareCandidates ==
    {Content(<<"b">>, Some(MonoDetails.no_description)),
     Content(<<"b">>, Some([MonoDetails.no_description EXCEPT
                               !.menu_highlights = Some(JList(<<"sushi">>))])),
     Content(<<"c">>, Some([MonoDetails.no_description EXCEPT
                               !.description = Some(<<"a", " ", "restaurant">>)]))}

MonoInputs ==
    {<<<<MonoFullReference>>, c, 10>> : c \in SeqsUpTo(MonoFullCandidates, MaxMonoCands)}
    \cup {<<<<MonoBareReference>>, c, 10>> : c \in SeqsUpTo(MonoBareCandidates, MaxMonoCands)}

\* one call on the fresh engine, one reference, the encoder works
NextMono == Next(MonoInputs, {}, 1)
SpecMono == Init /\ [][NextMono]_vars

-----------------------------------------------------------------------------
\* get_restaurant_details on the event loop.  Coroutines are scheduled
\* cooperatively: what a coroutine runs between two awaits is one step.
\* request_lock is a threading.Lock: acquiring it while a suspended coroutine
\* holds it blocks the thread of the event loop, and with it every coroutine.

recommender == <<engine, arguments, locals, history, pc>>

\* the event loop's thread is stuck in request_lock.acquire()
LoopBlocked == \E c \in SearchRequests : coroutines[c].pc = "blocked"

\* `timestamps[:] = [ts for ts in timestamps if ts > cutoff]`
CleanTimestamps(timestamps, time) ==
    SelectSeq(timestamps, LAMBDA ts : ts > time - MINUTE)

\* _parse_response of the data of a 200 response whose content is or is not JSON
parse_response(outcome) ==
    IF outcome = "ok" THEN GroqResponse(TRUE, PRIMARY_MODEL)
    ELSE GroqResponse(FALSE, PRIMARY_MODEL)

\* `cache[cache_key] = result` (on every path but the cache hit) and `return result`
ReturnResponse(c, co, response, store, hit) ==
    /\ groq_cache' = IF store THEN Put(groq_cache, co.key, response) ELSE groq_cache
    /\ returned' = Append(returned, [key |-> co.key, response |-> response, hit |-> hit,
                                     sends |-> co.sends, started |-> co.started])
    /\ coroutines' = [coroutines EXCEPT ![c] = Idle(co.calls + 1)]

\* lines 164-170: session.post sends the request and awaits the response
Post(c, co, Latencies) ==
    /\ sent' = Append(sent, now)
    /\ \E latency \in Latencies :
          coroutines' = [coroutines EXCEPT ![c] =
                            [co EXCEPT !.pc = "post", !.wake = now + latency,
                                       !.sends = @ + 1]]

\* lines 226-233 and 245-252: _check_rate_limits, then _make_request up to its
\* first await.  _check_rate_limits returns False on the daily count before it
\* takes the lock; with the lock it drops the old timestamps and compares what
\* is left with the limit.  _make_request sleeps with the lock held when the
\* last response is less than MIN_REQUEST_INTERVAL old, and posts otherwise.
BeginAttempt(c, co, Latencies) ==
    IF daily_request_count_primary >= REQUESTS_PER_DAY
    THEN /\ ReturnResponse(c, co, GroqResponse(FALSE, ""), TRUE, FALSE)
         /\ UNCHANGED <<request_lock, request_timestamps_primary, sent>>
    ELSE IF request_lock # 0
    THEN /\ coroutines' = [coroutines EXCEPT ![c] = [co EXCEPT !.pc = "blocked"]]
         /\ UNCHANGED <<groq_cache, returned, request_lock, request_timestamps_primary, sent>>
    ELSE /\ request_timestamps_primary' = CleanTimestamps(request_timestamps_primary, now)
         /\ IF Len(request_timestamps_primary') >= REQUESTS_PER_MINUTE
            THEN /\ ReturnResponse(c, co, GroqResponse(FALSE, ""), TRUE, FALSE)
                 /\ UNCHANGED <<request_lock, sent>>
            ELSE IF now - last_request_time < MIN_REQUEST_INTERVAL
            THEN /\ request_lock' = c
                 /\ coroutines' = [coroutines EXCEPT ![c] =
                                      [co EXCEPT !.pc = "throttle",
                                                 !.wake = last_request_time
                                                             + MIN_REQUEST_INTERVAL]]
                 /\ UNCHANGED <<groq_cache, returned, sent>>
            ELSE /\ Post(c, co, Latencies)
                 /\ UNCHANGED <<groq_cache, returned, request_lock>>

\* the get_restaurant_details calls made so far, returned or not
CallsMade ==
    Len(returned) + Cardinality({c \in SearchRequests : coroutines[c].pc # "idle"})

\* get_restaurant_details(..., tomtom_poi_id = key, ...) is called: lines 216-233.
\* With in_order the caller works through the restaurants 1, 2, ... of its
\* search, as process_all_restaurants does.
CallDetails(c, Keys, in_order, max_calls, Latencies) ==
    /\ ~LoopBlocked
    /\ coroutines[c].pc = "idle"
    /\ CallsMade < max_calls
    /\ \E key \in Keys :
          /\ in_order => key = coroutines[c].calls + 1
          /\ \E co \in {[coroutines[c] EXCEPT !.key = key, !.attempt = 1,
                                              !.started = Len(returned)]} :
                IF key \in DOMAIN groq_cache
                THEN /\ ReturnResponse(c, co, groq_cache[key], FALSE, TRUE)
                     /\ UNCHANGED <<request_lock, request_timestamps_primary, sent>>
                ELSE BeginAttempt(c, co, Latencies)
    /\ UNCHANGED <<now, last_request_time, daily_request_count_primary>>
    /\ UNCHANGED <<recommender, lookups>>

\* line 162 returns: the lock is released and the request is posted
WakeThrottle(c, Latencies) ==
    /\ ~LoopBlocked
    /\ coroutines[c].pc = "throttle"
    /\ coroutines[c].wake <= now
    /\ request_lock' = 0
    /\ Post(c, coroutines[c], Latencies)
    /\ UNCHANGED <<now, groq_cache, last_request_time, request_timestamps_primary,
                   daily_request_count_primary, returned>>
    /\ UNCHANGED <<recommender, lookups>>

\* the requests so far that did not return data
Failures ==
    Len(sent) - daily_request_count_primary
        - Cardinality({c \in SearchRequests : coroutines[c].pc = "post"})

\* The post ends, lines 171-189 and 234-262.  outcome: "ok" (status 200, JSON
\* content), "unparsable" (status 200, content that is not JSON), "status" (429
\* or another status), "error" (a timeout or an exception: line 171 is not
\* reached).  Data is recorded by _record_request, which takes the lock, then
\* parsed, stored and returned; without data the first attempt sleeps
\* RETRY_DELAY and the second stores and returns the failure response.
Response(c, Outcomes, max_failures) ==
    /\ ~LoopBlocked
    /\ coroutines[c].pc = "post"
    /\ coroutines[c].wake <= now
    /\ \E outcome \in Outcomes :
          /\ outcome \notin {"ok", "unparsable"} => Failures < max_failures
          /\ last_request_time' = IF outcome = "error" THEN last_request_time ELSE now
          /\ IF outcome \in {"ok", "unparsable"}
             THEN IF request_lock # 0
                  THEN /\ coroutines' = [coroutines EXCEPT ![c].pc = "blocked"]
                       /\ UNCHANGED <<groq_cache, returned, request_timestamps_primary,
                                      daily_request_count_primary>>
                  ELSE /\ request_timestamps_primary' = Append(request_timestamps_primary, now)
                       /\ daily_request_count_primary' = daily_request_count_primary + 1
                       /\ ReturnResponse(c, coroutines[c], parse_response(outcome), TRUE, FALSE)
             ELSE /\ IF coroutines[c].attempt = 1
                     THEN /\ coroutines' = [coroutines EXCEPT ![c].pc = "retry",
                                                              ![c].attempt = 2,
                                                              ![c].wake = now + RETRY_DELAY]
                          /\ UNCHANGED <<groq_cache, returned>>
                     ELSE ReturnResponse(c, coroutines[c], GroqResponse(FALSE, ""), TRUE, FALSE)
                  /\ UNCHANGED <<request_timestamps_primary, daily_request_count_primary>>
    /\ UNCHANGED <<now, request_lock, sent>>
    /\ UNCHANGED <<recommender, lookups>>

\* line 242 returns: the second attempt starts
Retry(c, Latencies) ==
    /\ ~LoopBlocked
    /\ coroutines[c].pc = "retry"
    /\ coroutines[c].wake <= now
    /\ BeginAttempt(c, coroutines[c], Latencies)
    /\ UNCHANGED <<now, last_request_time, daily_request_count_primary>>
    /\ UNCHANGED <<recommender, lookups>>

\* the coroutines suspended at an await
Suspended == {c \in SearchRequests : coroutines[c].pc \in {"throttle", "post", "retry"}}

\* no coroutine can run: the loop waits for the earliest timer or response
Advance ==
    /\ ~LoopBlocked
    /\ Suspended # {}
    /\ \A c \in Suspended : coroutines[c].wake > now
    /\ \E c \in Suspended :
          /\ \A d \in Suspended : coroutines[c].wake <= coroutines[d].wake
          /\ now' = coroutines[c].wake
    /\ UNCHANGED <<groq_cache, last_request_time, request_lock, request_timestamps_primary,
                   daily_request_count_primary, coroutines, sent, returned>>
    /\ UNCHANGED <<recommender, lookups>>

NextDetails(Callers, Keys, in_order, max_calls, Outcomes, max_failures, Latencies) ==
    \/ \E c \in Callers : CallDetails(c, Keys, in_order, max_calls, Latencies)
    \/ \E c \in Callers : WakeThrottle(c, Latencies)
    \/ \E c \in Callers : Response(c, Outcomes, max_failures)
    \/ \E c \in Callers : Retry(c, Latencies)
    \/ Advance

\* Two search requests in progress, asking between them for the details of up
\* to MaxGroqCalls restaurants out of two; the API answers in any way, and its
\* answer is there as soon as the loop gets to the coroutine that awaits it.
GroqKeys == {1, 2}
GroqOutcomes == {"ok", "unparsable", "status", "error"}
NextGroq ==
    NextDetails(SearchRequests, GroqKeys, FALSE, MaxGroqCalls, GroqOutcomes,
                2 * MaxGroqCalls, {0})
SpecGroq == Init /\ [][NextGroq]_vars

\* One search request working through MaxLimitCalls restaurants, one after the
\* other; the API answers at once, and all but MaxLimitFailures of its answers
\* are good.
NextLimit ==
    NextDetails({1}, 1..MaxLimitCalls, TRUE, MaxLimitCalls, {"ok", "status"},
                MaxLimitFailures, {0})
SpecLimit == Init /\ [][NextLimit]_vars

-----------------------------------------------------------------------------
\* The lookup clients: search_locations (GeoDB), search_restaurants (TomTom),
\* get_city_bounding_box (Nominatim) and search_city_restaurants (TomTom).  Each
\* keeps a module-level cache.  Their handlers block the event loop while they
\* run, so a lookup is one step.
\* outcome of an upstream request: "ok" (status 200), "rate_limited" (429),
\* "status" (another status), "timeout", "exception".

UpstreamOutcomes == {"ok", "rate_limited", "status", "timeout", "exception"}

\* what a lookup did: the cache after it, whether it ended well, what it
\* returned and how many requests it sent upstream
LookupResult(cache, ok, value, contacts) ==
    [cache |-> cache, ok |-> ok, value |-> value, contacts |-> contacts]

\* search_locations with the failures cached as well
search_locations_cache_all(cache, query, outcome, answer) ==
    IF query \in DOMAIN cache THEN LookupResult(cache, TRUE, cache[query], 0)
    ELSE IF outcome = "ok" THEN LookupResult(Put(cache, query, answer), TRUE, answer, 1)
    ELSE LookupResult(Put(cache, query, "error"), FALSE, "error", 1)

\* location.py lines 30-97: the cached result, else one request; only the
\* results of a 200 response are stored
search_locations(cache, query, outcome, answer) ==
    IF query \in DOMAIN cache THEN LookupResult(cache, TRUE, cache[query], 0)
    ELSE IF outcome = "ok" THEN LookupResult(Put(cache, query, answer), TRUE, answer, 1)
    ELSE LookupResult(cache, FALSE, "error", 1)

\* restaurant.py lines 27-94: the same shape
search_restaurants(cache, query, outcome, answer) ==
    IF query \in DOMAIN cache THEN LookupResult(cache, TRUE, cache[query], 0)
    ELSE IF outcome = "ok" THEN LookupResult(Put(cache, query, answer), TRUE, answer, 1)
    ELSE LookupResult(cache, FALSE, "error", 1)

\* lines 42-57: the queries tried for "City", "City, Country", "City, State, Country"
SearchQueries(city_name) == IF Len(city_name) >= 3 THEN 3 ELSE Len(city_name)

\* what a Nominatim query meets
BboxOutcomes == {"suitable", "unsuitable", "exception"}

\* city_restaurant.py lines 30-150.  outcomes[i] is what query i meets:
\* "suitable" (a 200 response with a result that passes the tests),
\* "unsuitable" (any other response), "exception" (requests.get or the parsing
\* raises).  The box of the first suitable result is stored and returned; an
\* exception, or no suitable result in any query, returns None and stores nothing.
get_city_bounding_box(cache, city_name, outcomes) ==
    LET decisive == {i \in 1..SearchQueries(city_name) :
                        outcomes[i] \in {"suitable", "exception"}}
        first == CHOOSE i \in decisive : \A j \in decisive : i <= j
    IN IF city_name \in DOMAIN cache THEN LookupResult(cache, TRUE, cache[city_name], 0)
       ELSE IF decisive = {} THEN LookupResult(cache, FALSE, None, SearchQueries(city_name))
       ELSE IF outcomes[first] = "exception" THEN LookupResult(cache, FALSE, None, first)
       ELSE LookupResult(Put(cache, city_name, Some("nominatim")), TRUE, Some("nominatim"),
                         first)

\* the generic restaurant category of TomTom
RESTAURANT_CATEGORY == 7315

\* search.py lines 410-416: the categories of the selected restaurants, or the
\* generic category when they carry none
create_search_category_ids(category_sets) ==
    LET category_ids == UNION {category_sets[i] : i \in 1..Len(category_sets)}
    IN IF category_ids = {} THEN {RESTAURANT_CATEGORY} ELSE category_ids

\* city_restaurant.py lines 199-204
CategorySet(category_ids) ==
    IF category_ids = {} THEN {RESTAURANT_CATEGORY}
    ELSE category_ids \ {RESTAURANT_CATEGORY}

\* city_restaurant.py lines 206-309, given what get_city_bounding_box returned:
\* the cache key (line 238) names the source of the box; only the restaurants of a 200
\* response are stored
CacheKey(city_name, category_ids, bbox_data) ==
    <<city_name, CategorySet(category_ids), IF ~IsNone(bbox_data) THEN "nominatim" ELSE "fallback">>
search_city_restaurants(cache, city_name, category_ids, bbox_data, outcome, answer) ==
    LET cache_key == CacheKey(city_name, category_ids, bbox_data)
    IN IF cache_key \in DOMAIN cache THEN LookupResult(cache, TRUE, cache[cache_key], 0)
       ELSE IF outcome = "ok" THEN LookupResult(Put(cache, cache_key, answer), TRUE, answer, 1)
       ELSE LookupResult(cache, FALSE, "none", 1)

\* the record of a lookup that returned; key is its cache key
LookupEntry(client, query, key, result, category_set) ==
    [client |-> client, query |-> query, key |-> key, ok |-> result.ok, contacts |-> result.contacts,
     category_set |-> category_set]

\* the requests to the lookup endpoints so far (a bounding box lookup is part
\* of the city lookup that makes it)
LookupsMade == Cardinality({i \in 1..Len(lookup_log) : lookup_log[i].client # "bbox"})

\* GET /locations?query=...
SearchLocations(Queries, Answers, max_lookups) ==
    /\ LookupsMade < max_lookups
    /\ \E query \in Queries, outcome \in UpstreamOutcomes, answer \in Answers :
       \E r \in {search_locations(lookup_cache.locations, query, outcome, answer)} :
          /\ lookup_cache' = [lookup_cache EXCEPT !.locations = r.cache]
          /\ lookup_log' = Append(lookup_log, LookupEntry("locations", query, query, r, {}))
          /\ UNCHANGED <<recommender, groq, explanation>>

\* GET /restaurants/search?query=...
SearchRestaurants(Queries, Answers, max_lookups) ==
    /\ LookupsMade < max_lookups
    /\ \E query \in Queries, outcome \in UpstreamOutcomes, answer \in Answers :
       \E r \in {search_restaurants(lookup_cache.restaurants, query, outcome, answer)} :
          /\ lookup_cache' = [lookup_cache EXCEPT !.restaurants = r.cache]
          /\ lookup_log' = Append(lookup_log, LookupEntry("restaurants", query, query, r, {}))
          /\ UNCHANGED <<recommender, groq, explanation>>

\* search_city_restaurants(..., city_name, category_ids, ...), as create_search
\* calls it: the bounding box lookup, then the restaurant lookup
SearchCityRestaurants(Cities, CategoryIds, Answers, max_lookups) ==
    /\ LookupsMade < max_lookups
    /\ \E city_name \in Cities, category_ids \in CategoryIds,
       outcome \in UpstreamOutcomes, answer \in Answers :
       \E outcomes \in [1..SearchQueries(city_name) -> BboxOutcomes] :
       \E b \in {get_city_bounding_box(lookup_cache.bbox, city_name, outcomes)} :
          \E r \in {search_city_restaurants(lookup_cache.city, city_name, category_ids,
                                            b.value, outcome, answer)} :
             /\ lookup_cache' = [lookup_cache EXCEPT !.bbox = b.cache, !.city = r.cache]
             /\ lookup_log' = lookup_log
                                \o <<LookupEntry("bbox", city_name, city_name, b, {}),
                                     LookupEntry("city", <<city_name, category_ids>>,
                                                 CacheKey(city_name, category_ids, b.value),
                                                 r, CategorySet(category_ids))>>
             /\ UNCHANGED <<recommender, groq, explanation>>

\* ml_routes.py lines 144-197: the methodology with the weight of each feature
\* it lists, read from recommendation_system.feature_weights; a key the engine
\* does not hold raises KeyError, which the handler turns into status 500
ExplainedFeatures == {"cuisine", "price", "description", "menu_tags"}
explain_recommendations(user_count, city_count) ==
    IF ExplainedFeatures \subseteq DOMAIN feature_weights
    THEN [status |-> 200,
          weights |-> [f \in ExplainedFeatures |-> feature_weights[f]],
          total_comparisons |-> user_count * city_count]
    ELSE [status |-> 500, weights |-> <<>>, total_comparisons |-> 0]

\* GET /recommendations/explain/{search_id}; the counts are those of the
\* search's rows
ExplainRecommendations(Counts) ==
    /\ IsNone(explanation)
    /\ \E user_count \in Counts, city_count \in Counts :
          explanation' = Some(explain_recommendations(user_count, city_count))
    /\ UNCHANGED <<recommender, groq, lookup_cache, lookup_log>>

\* Up to MaxLookups requests to the lookup endpoints and to the explain
\* endpoint; create_search passes the categories of no restaurant, of a
\* restaurant without categories, of restaurants with categories; another
\* caller passes no category.
LookupQueries == {"q1", "q2"}
LookupAnswers == {"r1"}
LookupCities == {<<"City">>, <<"City", "State", "Country">>}
LookupCategoryIds ==
    {{}} \cup {create_search_category_ids(selected) :
                 selected \in {<<>>, <<{}>>, <<{RESTAURANT_CATEGORY}>>,
                               <<{RESTAURANT_CATEGORY}, {7318}>>}}
NextLookup ==
    \/ SearchLocations(LookupQueries, LookupAnswers, MaxLookups)
    \/ SearchRestaurants(LookupQueries, LookupAnswers, MaxLookups)
    \/ SearchCityRestaurants(LookupCities, LookupCategoryIds, LookupAnswers, MaxLookups)
    \/ ExplainRecommendations(0..2)
SpecLookup == Init /\ [][NextLookup]_vars

Spec == SpecFeat

-----------------------------------------------------------------------------
\* Claims about the ranking (SpecRank).

ReferenceNames == {NormalizedName(user_restaurants[j].name) : j \in 1..Len(user_restaurants)}
CandidateNames == {NormalizedName(city_restaurants[i].name) : i \in 1..Len(city_restaurants)}

\* D: the candidates left once those named like a reference and the later
\* same-name duplicates are removed
DedupCount == Cardinality(CandidateNames \ ReferenceNames)

ValidCall == Len(user_restaurants) >= 1 /\ Len(city_restaurants) >= 1

\* C1: a call with a non-empty reference list, a non-empty candidate list and
\* top_k >= 1 returns exactly min(top_k, D) entries.
C1_OutputLength ==
    (pc = "done" /\ ValidCall /\ top_k >= 1)
        => Len(recommendations) = Min(top_k, DedupCount)

\* a returned call where the filter removed candidates and the cut removed more
C1_Witness ==
    /\ pc = "done" /\ ValidCall /\ top_k >= 1
    /\ DedupCount < Len(city_restaurants)
    /\ top_k < DedupCount
    /\ Len(recommendations) = top_k

C3_NoReferenceName ==
    pc = "done" =>
        \A i \in 1..Len(recommendations), j \in 1..Len(user_restaurants) :
            StrStrip(StrLower(recommendations[i].restaurant_name))
                # StrStrip(StrLower(user_restaurants[j].name))

\* a returned, non-empty list of a call where a candidate spelt differently from
\* a reference has that reference's normalised name
C3_Witness ==
    /\ pc = "done"
    /\ recommendations # <<>>
    /\ \E i \in 1..Len(city_restaurants), j \in 1..Len(user_restaurants) :
          /\ city_restaurants[i].name # user_restaurants[j].name
          /\ NormalizedName(city_restaurants[i].name) = NormalizedName(user_restaurants[j].name)

\* C4: of the candidates that share a normalised name only the first of the
\* input list can be returned, and no two returned entries share one.
C4_FirstOccurrenceOnly ==
    pc = "done" =>
        /\ \A a, b \in 1..Len(recommendations) :
              a # b => NormalizedName(recommendations[a].restaurant_name)
                          # NormalizedName(recommendations[b].restaurant_name)
        /\ \A a \in 1..Len(recommendations) :
              \A i \in 1..(recommendations[a].restaurant_id - 1) :
                  NormalizedName(city_restaurants[i].name)
                      # NormalizedName(recommendations[a].restaurant_name)

\* the first of two same-name candidates is returned although the later one
\* scores higher
C4_Witness ==
    /\ pc = "done" /\ ValidCall
    /\ \E i, j \in 1..Len(city_restaurants) :
          /\ i < j
          /\ NormalizedName(city_restaurants[i].name) = NormalizedName(city_restaurants[j].name)
          /\ RowMax(similarity_matrix[j]) > RowMax(similarity_matrix[i])
          /\ \E a \in 1..Len(recommendations) : recommendations[a].restaurant_id = i

\* C5: the returned list is in descending order of aggregate score.
C5_SortedDescending ==
    pc = "done" =>
        \A a, b \in 1..Len(recommendations) :
            a < b => recommendations[a].similarity_score >= recommendations[b].similarity_score

\* a returned list in which the sort moved a later candidate before an earlier one
C5_Witness ==
    /\ pc = "done"
    /\ \E a, b \in 1..Len(recommendations) :
          /\ a < b
          /\ recommendations[a].similarity_score > recommendations[b].similarity_score
          /\ recommendations[a].restaurant_id > recommendations[b].restaurant_id

-----------------------------------------------------------------------------
\* Claims about the feature similarities and the price score (SpecFeat).

FeatureNames == {"cuisine", "price", "description", "review", "menu", "tags"}

\* the (candidate, reference) pairs calculate_feature_similarities has computed
ComputedPairs ==
    {<<i, j>> \in (1..Len(city_scores)) \X (1..Len(user_restaurants)) :
        pc \in {"rank", "done"}}

\* C8: for every computed pair each of the six per-feature similarities lies in
\* [0, 1] and so does the aggregate score.
C8_ScoresInUnitInterval ==
    \A p \in ComputedPairs :
        LET entry == city_scores[p[1]][p[2]]
        IN /\ \A f \in FeatureNames : entry.scores[f] >= 0 /\ entry.scores[f] <= ONE
           /\ entry.weighted_sim >= 0
           /\ entry.weighted_sim <= ONE * WEIGHT_ONE

\* a computed pair whose price scores are more than 1.0 apart, so that only the
\* floor keeps the price similarity at 0, and a similarity that reaches 1.0
C8_Witness ==
    /\ \E p \in ComputedPairs :
          /\ city_scores[p[1]][p[2]].scores.price = 0
          /\ Abs(Get(city_features[p[1]].price_score) - Get(user_features[p[2]].price_score)) > ONE
    /\ \E p \in ComputedPairs, f \in FeatureNames : city_scores[p[1]][p[2]].scores[f] = ONE

\* C9: the aggregate score of every computed pair is 0.18 cuisine + 0.15 price
\* + 0.20 description + 0.12 review + 0.20 menu + 0.15 tags, the six configured
\* weights, which sum to 1.0; the similarity matrix holds that aggregate.
C9_WeightedSum ==
    /\ feature_weights = [cuisine |-> 18, price |-> 15, description |-> 20,
                          review |-> 12, menu |-> 20, tags |-> 15]
    /\ feature_weights.cuisine + feature_weights.price + feature_weights.description
       + feature_weights.review + feature_weights.menu + feature_weights.tags = WEIGHT_ONE
    /\ \A p \in ComputedPairs :
          LET entry == city_scores[p[1]][p[2]]
          IN /\ entry.weighted_sim
                  = 18 * entry.scores.cuisine + 15 * entry.scores.price
                    + 20 * entry.scores.description + 12 * entry.scores.review
                    + 20 * entry.scores.menu + 15 * entry.scores.tags
             /\ similarity_matrix[p[1]][p[2]] = entry.weighted_sim

\* a computed pair whose six similarities are not all equal and whose tags
\* similarity is positive, so that each weight matters to the sum
C9_Witness ==
    \E p \in ComputedPairs :
        LET scores == city_scores[p[1]][p[2]].scores
        IN /\ scores.tags > 0
           /\ scores.tags # scores.menu
           /\ scores.cuisine # scores.price
           /\ scores.description # scores.review

\* the bundles once process_price_features has run
PricedFeatures ==
    IF pc \in {"text", "menu_tags", "similarity", "rank", "done", "raised"}
    THEN {all_features[i] : i \in 1..Len(all_features)}
    ELSE {}

\* C10: after process_price_features every bundle's price score lies in [0, 1]:
\* 0.5 when the price tier is absent, (tier - 1) / 4 with tier in 1..5 otherwise.
C10_PriceScoreInRange ==
    \A f \in PricedFeatures :
        /\ ~IsNone(f.price_score)
        /\ Get(f.price_score) >= 0
        /\ Get(f.price_score) <= ONE
        /\ IF IsNone(f.price_level)
           THEN Get(f.price_score) = NEUTRAL_SIMILARITY_SCORE
           ELSE /\ Get(f.price_level) \in 1..5
                /\ 4 * Get(f.price_score) = (Get(f.price_level) - 1) * ONE

-----------------------------------------------------------------------------
\* Claims about calls that follow one another on the one engine (SpecCalls).

Calls == 1..Len(history)

SameInput(a, b) ==
    /\ history[a].user_restaurants = history[b].user_restaurants
    /\ history[a].city_restaurants = history[b].city_restaurants
    /\ history[a].top_k = history[b].top_k
    /\ history[a].encoder_log = history[b].encoder_log

\* C6: two calls on the same engine with the same reference list, candidate list
\* and top_k (same encoder, same weights) return identical lists: the same
\* entries, scores and order.
C6_SameInputSameOutput ==
    \A a, b \in Calls :
        SameInput(a, b) =>
            /\ history[a].raised = history[b].raised
            /\ history[a].recommendations = history[b].recommendations

\* C7: no fitted vocabulary is retained from one call to the next, and the
\* result of a call is the one the same arguments give on the engine as
\* constructed, whatever calls came before it.
C7_NoRetainedVocabulary ==
    /\ pc = "idle" => /\ menu_tfidf_fitted = FALSE /\ menu_vocabulary = {}
                      /\ tags_tfidf_fitted = FALSE /\ tags_vocabulary = {}
    /\ \A a \in Calls :
          LET fresh == get_recommendations(history[a].user_restaurants,
                                           history[a].city_restaurants,
                                           history[a].top_k, FALSE, {}, FALSE, {})
          IN /\ history[a].raised = fresh.raised
             /\ history[a].recommendations = fresh.recommendations

-----------------------------------------------------------------------------
\* Claims about missing data (SpecFeat).

AllRows == user_restaurants \o city_restaurants

\* a stored menu or tags text that is absent, empty, null or a JSON list
ColumnAbsentOrList(column) ==
    IsNone(column) \/ Get(column).kind \in {"list", "empty", "null"}

\* a record whose optional fields are each a value of their kind, absent, null
\* or empty
FieldsAbsentOrPlain(row) ==
    \/ IsNone(row.details)
    \/ /\ ColumnAbsentOrList(Get(row.details).menu_highlights)
       /\ ColumnAbsentOrList(Get(row.details).tags)

\* C11: a call whose records have optional fields that are absent, null or empty
\* (a details row with a null description or review summary included) completes
\* without raising, and every returned candidate has a numeric aggregate score.
C11_AbsentFieldsTolerated ==
    (\A i \in 1..Len(AllRows) : FieldsAbsentOrPlain(AllRows[i])) =>
        /\ pc # "raised"
        /\ \A a \in 1..Len(recommendations) :
              recommendations[a].similarity_score \in 0..(ONE * WEIGHT_ONE)

\* a record with no value in any optional field
AllOptionalEmpty(row) ==
    \/ IsNone(row.details)
    \/ LET d == Get(row.details)
       IN /\ ~StrTruthy(d.cuisine)
          /\ IsNone(d.price_level)
          /\ ~StrTruthy(d.description)
          /\ ~StrTruthy(d.review_summary)
          /\ ~Truthy(ParseJsonField(d.menu_highlights))
          /\ ~Truthy(ParseJsonField(d.tags))

\* C12: for a candidate whose optional fields are all empty every per-feature
\* similarity is the neutral 0.5, against whatever reference.
C12_EmptyCandidateNeutral ==
    \A p \in ComputedPairs :
        AllOptionalEmpty(city_restaurants[p[1]]) =>
            \A f \in FeatureNames :
                city_scores[p[1]][p[2]].scores[f] = NEUTRAL_SIMILARITY_SCORE

\* the outcomes of the cuisine encode and of the two text encodes of this call
CuisineEncoderRaised == Len(encoder_log) >= 1 /\ encoder_log[1] = "cuisine"
TextEncoderRaised == Len(encoder_log) >= 2 /\ encoder_log[2] \in {"description", "review"}

\* the except branch of process_menu_and_tags_features was taken: a bundle
\* holds the fallback vector (no vocabulary of the model has that many terms)
VectorizerRaised ==
    /\ pc \in {"similarity", "rank", "done"}
    /\ \E i \in 1..Len(all_features) :
          all_features[i].menu_embeddings = Some(Zeros(MENU_TFIDF_MAX_FEATURES))

\* C13: when the encoder or the menu/tags vectorizer raises on a dimension the
\* call does not abort: every bundle gets the zero vector of the expected length
\* for it, and its similarity is 0.5 for every pair.
C13_EncoderFailureNeutral ==
    /\ pc = "raised" => TextFeaturesRaise(all_features) \/ MenuTagsRaise(all_features)
    /\ CuisineEncoderRaised =>
          /\ \A i \in 1..Len(all_features) :
                all_features[i].cuisine_vector = Some(Zeros(SENTENCE_EMBEDDING_DIM))
          /\ \A p \in ComputedPairs :
                city_scores[p[1]][p[2]].scores.cuisine = NEUTRAL_SIMILARITY_SCORE
    /\ TextEncoderRaised =>
          /\ \A i \in 1..Len(all_features) :
                /\ all_features[i].description_embeddings = Some(Zeros(SENTENCE_EMBEDDING_DIM))
                /\ all_features[i].review_embeddings = Some(Zeros(SENTENCE_EMBEDDING_DIM))
          /\ \A p \in ComputedPairs :
                /\ city_scores[p[1]][p[2]].scores.description = NEUTRAL_SIMILARITY_SCORE
                /\ city_scores[p[1]][p[2]].scores.review = NEUTRAL_SIMILARITY_SCORE
    /\ VectorizerRaised =>
          /\ \A i \in 1..Len(all_features) :
                /\ all_features[i].menu_embeddings = Some(Zeros(MENU_TFIDF_MAX_FEATURES))
                /\ all_features[i].tags_embeddings = Some(Zeros(TAGS_TFIDF_MAX_FEATURES))
          /\ \A p \in ComputedPairs :
                /\ city_scores[p[1]][p[2]].scores.menu = NEUTRAL_SIMILARITY_SCORE
                /\ city_scores[p[1]][p[2]].scores.tags = NEUTRAL_SIMILARITY_SCORE

\* a call where the cuisine encode, a text encode and the vectorizer all raised,
\* that went on to compute the similarities of a pair whose cuisines differ
C13_Witness ==
    /\ pc = "done"
    /\ CuisineEncoderRaised /\ TextEncoderRaised /\ VectorizerRaised
    /\ \E p \in ComputedPairs :
          /\ CuisineText(city_features[p[1]]) # CuisineText(user_features[p[2]])
          /\ city_scores[p[1]][p[2]].scores.cuisine = NEUTRAL_SIMILARITY_SCORE
    /\ recommendations # <<>>

-----------------------------------------------------------------------------
\* Claims about calculate_feature_similarities called on given bundles (SpecSim).

VectorFields ==
    {"cuisine_vector", "description_embeddings", "review_embeddings",
     "menu_embeddings", "tags_embeddings"}

ScoreOf(field) ==
    CASE field = "cuisine_vector" -> "cuisine"
      [] field = "description_embeddings" -> "description"
      [] field = "review_embeddings" -> "review"
      [] field = "menu_embeddings" -> "menu"
      [] field = "tags_embeddings" -> "tags"

\* the two vectors of a feature are set and differ in length
LengthsDiffer(field, city_restaurant, user_restaurant) ==
    /\ ~IsNone(city_restaurant[field]) /\ ~IsNone(user_restaurant[field])
    /\ Get(city_restaurant[field]).dim # Get(user_restaurant[field]).dim

\* the pairs of the call, computed or not
CallPairs ==
    {<<i, j>> \in (1..Len(city_features)) \X (1..Len(user_features)) :
        pc \in {"similarity", "rank", "raised"}}

\* C14: when the two vectors compared for a feature differ in length,
\* calculate_feature_similarities raises nothing and gives 0.5 for that feature
\* on that pair.
C14_LengthMismatchNeutral ==
    \A p \in CallPairs, field \in VectorFields :
        LengthsDiffer(field, city_features[p[1]], user_features[p[2]]) =>
            /\ pc # "raised"
            /\ pc = "rank" =>
                  city_scores[p[1]][p[2]].scores[ScoreOf(field)] = NEUTRAL_SIMILARITY_SCORE

-----------------------------------------------------------------------------
\* Claims about the extraction (SpecExtract).

\* the bundles once extract_features_from_restaurants has run on both lists
Extracted == pc \notin {"idle", "extract"}

EmptyFields(features) ==
    /\ features.cuisine = Some(<<>>)
    /\ features.price_level = None
    /\ features.description = Some(<<>>)
    /\ features.review_summary = Some(<<>>)
    /\ features.menu_highlights = PyList(<<>>)
    /\ features.tags = PyList(<<>>)

\* C15: extract_features_from_restaurants gives one bundle per record, in input
\* order, with the record's id and name, and never raises; a record whose
\* extraction fails gets a bundle with empty fields.
C15_OneBundlePerRecord ==
    Extracted =>
        /\ Len(all_features) = Len(AllRows)
        /\ \A i \in 1..Len(AllRows) :
              /\ i <= Len(all_features)
              /\ all_features[i].restaurant_id = AllRows[i].id
              /\ all_features[i].name = AllRows[i].name
              /\ ExtractionRaises(AllRows[i]) => EmptyFields(all_features[i])
        /\ pc = "raised" => encoder_log # <<>>

\* a call whose first record failed to extract, and whose later records got
\* their bundles, with their fields
C15_Witness ==
    /\ Extracted
    /\ Len(AllRows) >= 3
    /\ ExtractionRaises(AllRows[1])
    /\ \E i \in 2..Len(AllRows) :
          /\ ~ExtractionRaises(AllRows[i])
          /\ ~EmptyFields(all_features[i])
    /\ \E i \in 3..Len(AllRows) : ExtractionRaises(AllRows[i])

\* a stored text that json.loads rejects with JSONDecodeError
Unparsable(column) == ~IsNone(column) /\ Get(column).kind = "malformed"

-----------------------------------------------------------------------------
\* Claims about the result of a call (SpecRank).

EmptyInput == Len(user_restaurants) = 0 \/ Len(city_restaurants) = 0

NotVectorized(features) ==
    /\ features.cuisine_vector = None
    /\ features.price_score = None
    /\ features.description_embeddings = None
    /\ features.review_embeddings = None
    /\ features.menu_embeddings = None
    /\ features.tags_embeddings = None

\* C17: with an empty reference list or an empty candidate list the call returns
\* the empty list, raises nothing and runs no vectorization.
C17_EmptyInputEmptyResult ==
    (pc # "idle" /\ EmptyInput) =>
        /\ pc \in {"extract", "done"}
        /\ recommendations = <<>>
        /\ encoder_log = <<>>
        /\ ~menu_tfidf_fitted /\ ~tags_tfidf_fitted
        /\ \A i \in 1..Len(all_features) : NotVectorized(all_features[i])
        /\ city_scores = <<>>

\* a call with candidates but no reference that has returned
C17_Witness ==
    /\ pc = "done"
    /\ Len(user_restaurants) = 0
    /\ Len(city_restaurants) >= 2
    /\ top_k >= 1
    /\ recommendations = <<>>

\* the references whose pair score with candidate i is the row maximum
BestReferences(i) ==
    {j \in 1..Len(city_scores[i]) :
        \A k \in 1..Len(city_scores[i]) :
            city_scores[i][k].weighted_sim <= city_scores[i][j].weighted_sim}

\* C18: the aggregate score reported for a candidate is the maximum over the
\* references of its pair score, the breakdown reported with it is that of a
\* reference attaining the maximum, and the weighted sum of the reported
\* breakdown is the reported aggregate.
C18_BestMatchReported ==
    /\ \A p \in ComputedPairs :
          \E j \in BestReferences(p[1]) : feature_details[p[1]] = city_scores[p[1]][j].scores
    /\ (pc = "done" /\ ~EmptyInput) =>
          \A a \in 1..Len(recommendations) :
              LET rec == recommendations[a]
                  i == rec.restaurant_id
              IN /\ \E j \in BestReferences(i) :
                       /\ rec.similarity_score = city_scores[i][j].weighted_sim
                       /\ rec.feature_scores = city_scores[i][j].scores
                 /\ rec.similarity_score
                      = 18 * rec.feature_scores.cuisine + 15 * rec.feature_scores.price
                        + 20 * rec.feature_scores.description + 12 * rec.feature_scores.review
                        + 20 * rec.feature_scores.menu + 15 * rec.feature_scores.tags

\* a returned candidate that scores strictly best against the second of two
\* references, with a breakdown that differs from the first reference's
C18_Witness ==
    /\ pc = "done" /\ Len(user_restaurants) = 2
    /\ \E a \in 1..Len(recommendations) :
          LET i == recommendations[a].restaurant_id
          IN /\ city_scores[i][2].weighted_sim > city_scores[i][1].weighted_sim
             /\ recommendations[a].feature_scores = city_scores[i][2].scores
             /\ city_scores[i][2].scores # city_scores[i][1].scores

-----------------------------------------------------------------------------
\* Claims about candidates compared with a single reference (SpecMono).

\* candidate i has the six features of the only reference
IdenticalToReference(i) == city_restaurants[i].details = user_restaurants[1].details

\* C19: with a single reference, a candidate whose six features are those of the
\* reference scores at least as high as any candidate that differs from the
\* reference in a feature.
C19_IdenticalScoresHighest ==
    (pc \in {"rank", "done"} /\ Len(user_restaurants) = 1) =>
        \A i, d \in 1..Len(city_restaurants) :
            (IdenticalToReference(i) /\ ~IdenticalToReference(d)) =>
                similarity_matrix[i][1] >= similarity_matrix[d][1]

\* the candidates that survive the name filter: not named like a reference, and
\* the first of their normalised name
Survivors ==
    {i \in 1..Len(city_restaurants) :
        /\ NormalizedName(city_restaurants[i].name) \notin ReferenceNames
        /\ \A h \in 1..(i - 1) :
              NormalizedName(city_restaurants[h].name) # NormalizedName(city_restaurants[i].name)}

ReturnedIds == {recommendations[a].restaurant_id : a \in 1..Len(recommendations)}

\* C20: every candidate that survives the name filter and is not returned has an
\* aggregate score no higher than that of any returned entry.
C20_TruncationKeepsBest ==
    (pc = "done" /\ ~EmptyInput) =>
        \A i \in Survivors \ ReturnedIds, a \in 1..Len(recommendations) :
            RowMax(similarity_matrix[i]) <= recommendations[a].similarity_score

\* a call that returned a later candidate and cut an earlier survivor that
\* scores strictly lower
C20_Witness ==
    /\ pc = "done" /\ ~EmptyInput /\ top_k >= 1
    /\ \E i \in Survivors \ ReturnedIds, a \in 1..Len(recommendations) :
          /\ i < recommendations[a].restaurant_id
          /\ RowMax(similarity_matrix[i]) < recommendations[a].similarity_score

-----------------------------------------------------------------------------
\* Claims about what a failure leaves alone (SpecFeat).

\* the encode call of the review summaries raised
ReviewEncoderRaised == Len(encoder_log) >= 2 /\ encoder_log[2] = "review"

\* the fit of the tags vectorizer raised after the menu vectorizer was fitted
\* (the engine starts unfitted and the call is the first)
TagsVectorizerRaised ==
    /\ pc \in {"similarity", "rank", "done"}
    /\ menu_tfidf_fitted /\ ~tags_tfidf_fitted

\* C21: a failure zeroes only its own dimension: when encoding the review
\* summaries raises every bundle keeps the description vector the encoder
\* computed, and when vectorizing the tags raises every bundle keeps its menu
\* vector.
C21_FailureZeroesOnlyItsDimension ==
    /\ ReviewEncoderRaised =>
          \A i \in 1..Len(all_features) :
              all_features[i].description_embeddings =
                  Some(sentence_model_encode(<<DescriptionText(all_features[i])>>)[1])
    /\ TagsVectorizerRaised =>
          \A i \in 1..Len(all_features) :
              all_features[i].menu_embeddings =
                  Some(TfidfTransform(menu_vocabulary,
                                      ItemsText(all_features[i].menu_highlights, "food")))


\* the parsed menu or tags value of the bundle is not a list
HasNonListField(features) ==
    features.menu_highlights.type # "list" \/ features.tags.type # "list"

\* the bundle with every non-list value replaced by the empty list
AsEmptyList(features) ==
    [features EXCEPT
        !.menu_highlights = IF @.type # "list" THEN PyList(<<>>) ELSE @,
        !.tags = IF @.type # "list" THEN PyList(<<>>) ELSE @]

\* the first call of the engine has passed process_menu_and_tags_features
MenuTagsProcessed ==
    /\ pc \in {"similarity", "rank", "done"}
    /\ Len(encoder_log) = 2
    /\ history = <<>>

\* C22: a record whose stored menu or tags text parses to something other than a
\* list counts as having an empty list: the call does not raise because of it,
\* and the other bundles get the menu and tags vectors they would get if the
\* record had an empty list.
C22_NonListFieldIsEmptyList ==
    (\E i \in 1..Len(all_features) : HasNonListField(all_features[i])) =>
        /\ pc = "raised" => TextFeaturesRaise(all_features)
        /\ MenuTagsProcessed =>
              \A i \in 1..Len(all_features) :
                 ~HasNonListField(all_features[i]) =>
                    \E r \in {process_menu_and_tags_features(
                                 [j \in 1..Len(all_features) |-> AsEmptyList(all_features[j])],
                                 FALSE, {}, FALSE, {}).features[i]} :
                        /\ all_features[i].menu_embeddings = r.menu_embeddings
                        /\ all_features[i].tags_embeddings = r.tags_embeddings

-----------------------------------------------------------------------------
\* Claims about get_restaurant_details and the rate limiter (SpecGroq, SpecLimit).

\* C23: with several get_restaurant_details calls on one event loop no coroutine
\* ever tries to acquire request_lock while a coroutine suspended at an await
\* holds it, so the loop's thread never blocks and every call can return.
C23_LoopNeverBlocks ==
    \A c \in SearchRequests : coroutines[c].pc # "blocked"


\* the requests sent to the API in the minute that ends with request i
SentInMinuteBefore(i) ==
    {j \in 1..i : sent[j] > sent[i] - MINUTE}

\* C24: the client stays within the limits configured for the primary model:
\* whatever the calls and the answers, at most REQUESTS_PER_MINUTE requests are
\* sent in any one minute and at most REQUESTS_PER_DAY in the day, failed
\* requests included.
C24_WithinRateLimits ==
    /\ \A i \in 1..Len(sent) : Cardinality(SentInMinuteBefore(i)) <= REQUESTS_PER_MINUTE
    /\ Len(sent) <= REQUESTS_PER_DAY


\* the responses get_restaurant_details builds
GroqResponses == {GroqResponse(TRUE, PRIMARY_MODEL), GroqResponse(FALSE, PRIMARY_MODEL),
                  GroqResponse(FALSE, "")}

\* the request counts of C25, for the calls in progress and the calls returned
RequestCountsHold ==
    /\ \A c \in SearchRequests :
          coroutines[c].sends <= coroutines[c].attempt /\ coroutines[c].attempt <= 2
    /\ \A i \in 1..Len(returned) :
          /\ returned[i].sends <= 2
          /\ returned[i].hit => returned[i].sends = 0
          /\ returned[i].response \in GroqResponses
          /\ ~returned[i].hit /\ returned[i].response.model_used = ""
                => ~returned[i].response.success
          /\ ~returned[i].hit /\ returned[i].sends = 0
                => returned[i].response = GroqResponse(FALSE, "")

\* C25: one get_restaurant_details call sends at most two requests, none on a
\* cache hit or a refused first check, and the second only on its second
\* attempt; it always returns a GroqResponse (a call in progress is never stuck),
\* with success false when no request returned data.
C25_AtMostTwoRequestsAndReturns ==
    /\ RequestCountsHold
    /\ \A c \in SearchRequests :
          coroutines[c].pc # "idle" => coroutines[c].pc \in {"throttle", "post", "retry"}

\* call j started after call i returned
LaterCall(i, j) == i < j /\ returned[j].started >= i

\* C26: a call that misses the cache stores the response it returns under its
\* key, so every later call with that key is a cache hit that returns the same
\* response and sends nothing.
C26_MissStoresResponse ==
    \A i, j \in 1..Len(returned) :
        (~returned[i].hit /\ LaterCall(i, j) /\ returned[j].key = returned[i].key) =>
            /\ returned[j].hit
            /\ returned[j].sends = 0
            /\ returned[j].response = returned[i].response

\* C28: two requests to the API are never sent less than MIN_REQUEST_INTERVAL
\* apart, under any interleaving of the calls and after any failed request.
C28_RequestsSpaced ==
    \A i \in 2..Len(sent) : sent[i] - sent[i - 1] >= MIN_REQUEST_INTERVAL

-----------------------------------------------------------------------------
\* Claims about the lookup clients and the explain endpoint (SpecLookup).

\* the lookups the step adds to the log
NewLookups == {i \in 1..Len(lookup_log') : i > Len(lookup_log)}

\* lookup j is the next lookup of the client with the cache key of lookup i
NextIdentical(i, j) ==
    /\ i < j
    /\ lookup_log[j].client = lookup_log[i].client
    /\ lookup_log[j].key = lookup_log[i].key
    /\ \A k \in (i + 1)..(j - 1) :
          lookup_log[k].client # lookup_log[i].client
             \/ lookup_log[k].key # lookup_log[i].key

\* C27: the caches of the four lookups hold successful results only: a lookup
\* that does not end well (rate limit, another status, timeout, exception, no
\* suitable bounding box) leaves its cache as it was, and the next identical
\* lookup sends a request upstream again.
C27_FailuresNotCached ==
    /\ [][\A i \in NewLookups :
             ~lookup_log'[i].ok =>
                lookup_cache'[lookup_log'[i].client] = lookup_cache[lookup_log'[i].client]]_vars
    /\ [](\A i, j \in 1..Len(lookup_log) :
             NextIdentical(i, j) /\ ~lookup_log[i].ok => lookup_log[j].contacts >= 1)

\* a city lookup whose bounding box lookup and restaurant lookup both failed,
\* then the same city lookup again, which asked Nominatim and TomTom again
C27_Witness ==
    /\ Len(lookup_log) = 4
    /\ lookup_log[1].client = "bbox" /\ ~lookup_log[1].ok
    /\ lookup_log[2].client = "city" /\ ~lookup_log[2].ok
    /\ NextIdentical(1, 3) /\ lookup_log[3].contacts >= 1
    /\ NextIdentical(2, 4) /\ lookup_log[4].contacts = 1
    /\ lookup_log[4].query = lookup_log[2].query
    /\ lookup_cache.city = EmptyCache

\* C29: search_city_restaurants never queries TomTom with an empty category set;
\* given no category, or the generic category alone, it queries the generic
\* category.
C29_CategorySetNeverEmpty ==
    \A i \in 1..Len(lookup_log) :
        (lookup_log[i].client = "city" /\ lookup_log[i].contacts >= 1) =>
            /\ lookup_log[i].category_set # {}
            /\ lookup_log[i].query[2] \in {{}, {RESTAURANT_CATEGORY}}
                  => lookup_log[i].category_set = {RESTAURANT_CATEGORY}

\* C30: explain_recommendations answers with the methodology: status 200, and
\* for each feature it lists the weight the engine holds for it.
C30_ExplainReportsWeights ==
    ~IsNone(explanation) =>
        /\ Get(explanation).status = 200
        /\ \A f \in ExplainedFeatures :
              /\ f \in DOMAIN feature_weights
              /\ Get(explanation).weights[f] = feature_weights[f]

====
